---- MODULE Spec2Model ----
(***************************************************************************)
(* Model of the execution engine of the BATMAN API testing framework       *)
(* (api_testing_framework/executor.py): artifact discovery, environment    *)
(* preparation, the sequential, bounded-parallel and containerized         *)
(* execution strategies, and the aggregation of TestResults; of the `run`  *)
(* command that drives it (cli.py); and of the functions that derive test  *)
(* cases (parser.py), test data (templates.py) and the endpoint selection  *)
(* (generator.py) from an OpenAPI document; of the parser's reference      *)
(* resolution, validation, endpoint parsing and repository fetch           *)
(* (parser.py, validation.py); and of the generator's grouping of          *)
(* endpoints into test files (generator.py, templates.py).                 *)
(*                                                                         *)
(* Python strings that the code takes apart or converts (status codes,     *)
(* field names) are sequences of one-character strings; a dict is a        *)
(* function, and a dict whose key order matters is a sequence of entries.  *)
(*                                                                         *)
(* Console output and file writes are taken to succeed; the outcome of     *)
(* every external process (bats, docker-compose) is a nondeterministic     *)
(* choice among the outcomes subprocess.run can deliver. Template          *)
(* rendering is taken to succeed; the text of a failed clone's error is a  *)
(* choice among what releases of the git library put into it.              *)
(***************************************************************************)
EXTENDS Integers, Sequences, FiniteSets, TLC

\* ---------------------------------------------------------------- bounds
MaxUnits == 3        \* longest list of test files one call discovers
MaxParallel == 2     \* largest execution.max_parallel a call is given
MaxCalls == 2        \* run_tests calls a library client makes in one process
MaxLibUnits == 1     \* longest list of test files in the library-client runs
MaxFairUnits == 2    \* longest list of test files in the runs checked for progress
MaxResponses == 2    \* most responses an endpoint declares
MaxProperties == 2   \* most properties of the schema given to the synthesis
MaxEndpoints == 2    \* longest list of endpoints given to the filter
MaxListed == 2       \* longest inclusion or exclusion list

\* ------------------------------------------------------------- constants
DockerCompose == 0   \* the artifact identifier "docker-compose"
CliCalls == 1        \* the run command calls run_tests once per process

FileIds == 1..MaxUnits            \* paths, numbered in Path sort order
ReturnCodes == {0, 2}             \* exit codes of an external process
None == "None"
Unset == "<unset>"

\* the dict {} and dict.get(key, default)
EmptyDict == [k \in {} |-> None]
Get(d, key, default) == IF key \in DOMAIN d THEN d[key] ELSE default

\* what a call of a derivation function handed back: nothing yet, an
\* exception, or its return value
NoCall == [kind |-> "none", error |-> None, value |-> <<>>]
Raises(e) == [kind |-> "raised", error |-> e, value |-> <<>>]
Returns(v) == [kind |-> "returned", error |-> None, value |-> v]

EnvVars == {"API_BASE_URL", "AUTH_TOKEN", "AUTH_USERNAME", "AUTH_PASSWORD",
            "API_KEY", "API_KEY_HEADER", "TIMEOUT", "MAX_RETRIES"}

\* target_api.auth values a configuration can carry ("" is a missing field)
AuthConfigs ==
  { [type |-> "none",    token |-> "",    username |-> "",  password |-> "",   api_key |-> "",  api_key_header |-> ""],
    [type |-> "bearer",  token |-> "tok", username |-> "",  password |-> "",   api_key |-> "",  api_key_header |-> ""],
    [type |-> "bearer",  token |-> "",    username |-> "",  password |-> "",   api_key |-> "",  api_key_header |-> ""],
    [type |-> "basic",   token |-> "",    username |-> "u", password |-> "pw", api_key |-> "",  api_key_header |-> ""],
    [type |-> "api_key", token |-> "",    username |-> "",  password |-> "",   api_key |-> "k", api_key_header |-> "X-Key"] }

VARIABLES
  top,            \* .bats files directly in output_dir
  nested,         \* .bats files in sub-directories of output_dir
  bats_installed, \* whether `bats --version` succeeds on this machine
  environ,        \* os.environ, restricted to the variables the engine writes
  pc,             \* position of the thread that called run_tests
  config,         \* arguments of the current run_tests call
  test_files,     \* run_tests: test_files
  ustate,         \* per submitted unit: Pending / Running / terminal state
  ret,            \* per unit: the TestResult _run_single_test returned
  results,        \* the results list of the running strategy
  collected,      \* units already yielded by as_completed
  seq_i,          \* _run_sequential_tests: loop position
  returned,       \* what the last run_tests call returned or raised
  calls,          \* run_tests calls made so far
  max_calls,      \* run_tests calls this process makes
  hist,           \* observations: counters and logs, never read by actions
  endpoint,       \* get_endpoint_test_cases: its argument
  test_cases,     \* get_endpoint_test_cases: what the call handed back
  schema,         \* _generate_test_data: its argument
  test_data,      \* _generate_test_data: what the call handed back
  endpoints,      \* _filter_endpoints: the endpoints given
  exclude,        \* _filter_endpoints: the exclusion list
  include_only,   \* _filter_endpoints: the inclusion list
  filtered_endpoints, \* _filter_endpoints: what the call handed back
  fn,             \* the parser or generator function a caller invoked
  arg,            \* its argument
  outcome,        \* what the call handed back
  temp_dir,       \* _fetch_from_git: whether its temporary directory exists
  written         \* _generate_template_tests: the files written, in order

\* one call of a function of the parser or of the generator
invocation == <<fn, arg, outcome, temp_dir, written>>

\* the arguments and results of the derivation functions
derivation == <<endpoint, test_cases, schema, test_data,
                endpoints, exclude, include_only, filtered_endpoints,
                invocation>>

\* the state of the execution engine and of the run command
engine == <<top, nested, bats_installed, environ, pc, config,
            test_files, ustate, ret, results, collected, seq_i, returned,
            calls, max_calls, hist>>

vars == <<top, nested, bats_installed, environ, pc, config,
          test_files, ustate, ret, results, collected, seq_i, returned,
          calls, max_calls, hist, derivation>>

\* ------------------------------------------------------------ helpers
RECURSIVE SetToSortedSeq(_)
SetToSortedSeq(S) ==
  IF S = {} THEN <<>>
  ELSE LET m == CHOOSE x \in S : \A y \in S : x <= y
       IN <<m>> \o SetToSortedSeq(S \ {m})

RECURSIVE Insert(_, _)
Insert(x, s) ==
  IF s = <<>> THEN <<x>>
  ELSE IF x <= Head(s) THEN <<x>> \o s
  ELSE <<Head(s)>> \o Insert(x, Tail(s))

\* _find_test_files returning the concatenated glob results as they come
sorted_Missing(s) == s

\* sorted(list)
RECURSIVE sorted(_)
sorted(s) == IF s = <<>> THEN <<>> ELSE Insert(Head(s), sorted(Tail(s)))

\* output_dir.glob(pattern): '*.bats' matches the files directly in the
\* directory, '**/*.bats' matches those and the files of every sub-directory
glob(pattern, t, n) ==
  IF pattern = "*.bats" THEN SetToSortedSeq(t) ELSE SetToSortedSeq(t \cup n)

\* TestExecutor._find_test_files
FindTestFiles(t, n) == sorted(glob("*.bats", t, n) \o glob("**/*.bats", t, n))

TestResult(f, ok, out, code, msg) ==
  [test_file |-> f, success |-> ok, output |-> out, exit_code |-> code,
   error_message |-> msg]

\* the result carrying the captured stderr whatever the return code
CompletedResult_KeepsStderr(f, returncode) ==
  TestResult(f, returncode = 0, "stdout", returncode, "stderr")

\* _run_single_test, lines 261-268 / _run_docker_tests, lines 206-213
CompletedResult(f, returncode) ==
  TestResult(f, returncode = 0, "stdout", returncode,
             IF returncode # 0 THEN "stderr" ELSE None)

\* the timeout handler reporting the exit status of timeout(1)
TimeoutResult_Status124(f) == TestResult(f, FALSE, "", 124, "Test timed out")

\* _run_single_test, lines 270-279
TimeoutResult(f) == TestResult(f, FALSE, "", 1, "Test timed out")

\* the exception handler dropping the text of the exception
ErrorResult_NoMessage(f, e) == TestResult(f, FALSE, "", 1, None)

\* _run_single_test, lines 280-289
ErrorResult(f, e) == TestResult(f, FALSE, "", 1, e)

\* number of elements of s satisfying success
RECURSIVE CountPassed(_)
CountPassed(s) ==
  IF s = <<>> THEN 0
  ELSE (IF Head(s).success THEN 1 ELSE 0) + CountPassed(Tail(s))

\* the summary calling a run successful as soon as one test passed
Aggregate_AnyPassed(rs) ==
  LET passed_tests == CountPassed(rs)
      failed_tests == Len(rs) - passed_tests
  IN [total_tests |-> Len(rs), passed_tests |-> passed_tests,
      failed_tests |-> failed_tests, results |-> rs,
      success |-> (passed_tests > 0)]

\* run_tests, lines 75-87
Aggregate(rs) ==
  LET passed_tests == CountPassed(rs)
      failed_tests == Len(rs) - passed_tests
  IN [total_tests |-> Len(rs), passed_tests |-> passed_tests,
      failed_tests |-> failed_tests, results |-> rs,
      success |-> (failed_tests = 0)]

Terminal == {"Passed", "Failed", "TimedOut", "Errored"}
Units == DOMAIN ustate
Running == {i \in Units : ustate[i] = "Running"}

NoConfig == [docker |-> FALSE, parallel |-> FALSE, verbose |-> FALSE,
             max_parallel |-> 1, docker_enabled |-> FALSE]
Configs == [docker : BOOLEAN, parallel : BOOLEAN, verbose : BOOLEAN,
            max_parallel : 1..MaxParallel, docker_enabled : BOOLEAN]

\* what a run_tests call hands back: nothing yet, an exception, or the
\* ExecutionResults
NotReturned == [kind |-> "none", error |-> None, value |-> Aggregate(<<>>)]
Raised(e) == [kind |-> "raised", error |-> e, value |-> Aggregate(<<>>)]
Returned(er) == [kind |-> "returned", error |-> None, value |-> er]

\* observations of one run_tests call
NoHist == [setup |-> 0,          \* _setup_environment calls
           bats_checks |-> 0,    \* _check_bats_available calls
           bats_runs |-> <<>>,   \* per unit: `bats <file>` invocations
           docker_runs |-> 0,    \* docker-compose invocations
           compose_made |-> 0,   \* generate_docker_compose calls
           docker_out |-> <<>>,  \* how the docker-compose invocation ended
           printed |-> <<>>,     \* units given to _print_test_result, in order
           started |-> <<>>,     \* units in the order their run began
           made |-> <<>>,        \* per unit: TestResults created for it
           strategies |-> {}]    \* strategies entered

\* ------------------------------------------------------------ Init
\* the state of a fresh process whose output directory yields at most
\* `units` test files and which will call run_tests `n` times
InitWith(units, n) ==
  /\ top \in SUBSET FileIds
  /\ nested \in SUBSET (FileIds \ top)
  /\ top \cup nested = 1..Cardinality(top \cup nested)
  /\ Len(FindTestFiles(top, nested)) <= units
  /\ bats_installed \in BOOLEAN
  /\ max_calls = n
  /\ environ = [v \in EnvVars |-> Unset]
  /\ pc = "idle"
  /\ config = NoConfig
  /\ test_files = <<>>
  /\ ustate = <<>>
  /\ ret = <<>>
  /\ results = <<>>
  /\ collected = {}
  /\ seq_i = 1
  /\ returned = NotReturned
  /\ calls = 0
  /\ hist = NoHist

\* no derivation function has been called
NoCases ==
  /\ endpoint = [method |-> "GET", path |-> "/", responses |-> <<>>]
  /\ test_cases = NoCall

NoData == schema = EmptyDict /\ test_data = NoCall

NoFilter ==
  /\ endpoints = <<>>
  /\ exclude = <<>>
  /\ include_only = <<>>
  /\ filtered_endpoints = NoCall

NoInvocation ==
  /\ fn = "none"
  /\ arg = EmptyDict
  /\ outcome = NoCall
  /\ temp_dir = FALSE
  /\ written = <<>>

NoDerivation == NoCases /\ NoData /\ NoFilter /\ NoInvocation

\* a process that never runs a test: the derivation functions read neither
\* the file system nor the engine
EngineIdle == InitWith(0, 0) /\ bats_installed

\* the `run` command of the command line: one run_tests call (cli.py)
Init == InitWith(MaxUnits, CliCalls) /\ NoDerivation

\* a client of TestExecutor that calls run_tests repeatedly
InitLib == InitWith(MaxLibUnits, MaxCalls) /\ NoDerivation

\* ------------------------------------------------------------ run (cli)
\* cli.py, line 107: load_config raises (config.py, lines 131-132: the file
\* does not exist); run_tests is never called and the process ends
LoadConfigRaises ==
  /\ pc = "idle"
  /\ calls = 0
  /\ returned.kind = "none"
  /\ returned' = Raised("Configuration file not found")
  /\ pc' = "exit"
  /\ UNCHANGED <<derivation, top, nested, bats_installed, environ, config,
                 test_files, ustate, ret, results, collected, seq_i, calls,
                 max_calls, hist>>

\* the command leaving the failure branch without sys.exit(1)
RunExitCode_FailureFallsThrough(r) == IF r.kind = "raised" THEN 1 ELSE 0

\* cli.py, lines 113-122: the exit code of the process, given what the try
\* block got from load_config and run_tests.  sys.exit(1) raises SystemExit,
\* which `except Exception` does not catch; a normal return exits with 0
RunExitCode(r) ==
  IF r.kind = "raised" THEN 1
  ELSE IF r.value.success THEN 0
  ELSE 1

\* ------------------------------------------------------------ run_tests
\* run_tests going from discovery straight to the strategies
AfterDiscovery_NoSetup(fs) == IF fs = <<>> THEN "idle" ELSE "dispatch"

\* run_tests preparing the environment before it looks at what was found
AfterDiscovery_SetupAlways(fs) == "setup"

\* run_tests, lines 61-65: raise when nothing was found, else prepare the
\* environment
AfterDiscovery(fs) == IF fs = <<>> THEN "idle" ELSE "setup"

\* run_tests, lines 45-62: read the configuration, discover the artifacts,
\* raise ValueError when there is none
RunTests ==
  /\ pc = "idle"
  /\ calls < max_calls
  /\ \E c \in Configs :
       LET fs == FindTestFiles(top, nested) IN
       /\ config' = c
       /\ calls' = calls + 1
       /\ test_files' = fs
       /\ ustate' = [i \in 1..Len(fs) |-> "Pending"]
       /\ ret' = [i \in 1..Len(fs) |-> <<>>]
       /\ results' = <<>>
       /\ collected' = {}
       /\ seq_i' = 1
       /\ hist' = [NoHist EXCEPT !.bats_runs = [i \in 1..Len(fs) |-> 0],
                                 !.made = [i \in 1..Len(fs) |-> 0]]
       /\ pc' = AfterDiscovery(fs)
       /\ returned' = IF fs = <<>> THEN Raised("No test files found")
                                   ELSE NotReturned
  /\ UNCHANGED <<derivation, top, nested, bats_installed, environ, max_calls>>

\* _setup_environment, lines 100-127, for target_api.auth = auth
SetupEnv(env, auth) ==
  LET e1 == [env EXCEPT !["API_BASE_URL"] = "http://api"]
      e2 == IF auth.type = "none" THEN e1
            ELSE IF auth.type = "bearer" /\ auth.token # ""
              THEN [e1 EXCEPT !["AUTH_TOKEN"] = auth.token]
            ELSE IF auth.type = "basic"
              THEN [e1 EXCEPT
                     !["AUTH_USERNAME"] =
                        IF auth.username # "" THEN auth.username ELSE @,
                     !["AUTH_PASSWORD"] =
                        IF auth.password # "" THEN auth.password ELSE @]
            ELSE IF auth.type = "api_key"
              THEN [e1 EXCEPT
                     !["API_KEY"] =
                        IF auth.api_key # "" THEN auth.api_key ELSE @,
                     !["API_KEY_HEADER"] =
                        IF auth.api_key_header # "" THEN auth.api_key_header ELSE @]
            ELSE e1
  IN [e2 EXCEPT !["TIMEOUT"] = "30", !["MAX_RETRIES"] = "3"]

\* run_tests, line 65
SetupEnvironment ==
  /\ pc = "setup"
  /\ \E auth \in AuthConfigs : environ' = SetupEnv(environ, auth)
  /\ hist' = [hist EXCEPT !.setup = @ + 1]
  /\ pc' = "dispatch"
  /\ UNCHANGED <<derivation, top, nested, bats_installed, config,
                 test_files, ustate, ret, results, collected, seq_i,
                 returned, calls,
                 max_calls>>

\* run_tests asking for parallel before docker
Strategy_ParallelFirst(c) ==
  IF c.parallel THEN "parallel" ELSE IF c.docker THEN "docker" ELSE "sequential"

\* run_tests, lines 68-73: the strategy the call runs
Strategy(c) ==
  IF c.docker THEN "docker" ELSE IF c.parallel THEN "parallel" ELSE "sequential"

Dispatch ==
  /\ pc = "dispatch"
  /\ pc' = Strategy(config)
  /\ hist' = [hist EXCEPT !.strategies = @ \cup {Strategy(config)}]
  /\ UNCHANGED <<derivation, top, nested, bats_installed, environ, config,
                 test_files, ustate, ret, results, collected, seq_i,
                 returned, calls,
                 max_calls>>

\* ------------------------------------------------------ _run_single_test
\* the availability check placed before the try block: the RuntimeError
\* leaves _run_single_test and no TestResult is built
SingleTestReturns_CheckOutsideTry(f, installed) ==
  IF ~installed
    THEN {}
    ELSE {[state |-> IF rc = 0 THEN "Passed" ELSE "Failed",
           result |-> CompletedResult(f, rc)] : rc \in ReturnCodes}
         \cup {[state |-> "TimedOut", result |-> TimeoutResult(f)]}
         \cup {[state |-> "Errored", result |-> ErrorResult(f, "exception")]}

\* the ways _run_single_test(test_file) can end: the terminal state of the
\* unit and the TestResult returned
SingleTestReturns(f, installed) ==
  IF ~installed
    THEN {[state |-> "Errored",
           result |-> ErrorResult(f, "BATS is not installed")]}
    ELSE {[state |-> IF rc = 0 THEN "Passed" ELSE "Failed",
           result |-> CompletedResult(f, rc)] : rc \in ReturnCodes}
         \cup {[state |-> "TimedOut", result |-> TimeoutResult(f)]}
         \cup {[state |-> "Errored", result |-> ErrorResult(f, "exception")]}

\* _run_single_test, lines 240-289, for the unit i that is running
RunSingleTest(i) ==
  /\ pc \in {"sequential", "parallel"}
  /\ i \in Units
  /\ ustate[i] = "Running"
  /\ \E o \in SingleTestReturns(test_files[i], bats_installed) :
       /\ ustate' = [ustate EXCEPT ![i] = o.state]
       /\ ret' = [ret EXCEPT ![i] = Append(@, o.result)]
  /\ hist' = [hist EXCEPT !.bats_checks = @ + 1,
                          !.bats_runs[i] = IF bats_installed THEN @ + 1 ELSE @,
                          !.made[i] = @ + 1]
  /\ UNCHANGED <<derivation, top, nested, bats_installed, environ, pc,
                 config, test_files, results, collected, seq_i, returned,
                 calls, max_calls>>

\* _print_test_result, lines 299-305: the status, the file name and, for a
\* failure that carries a message, the message
PrintTestResult(result) ==
  [status |-> IF result.success THEN "PASS" ELSE "FAIL",
   name |-> result.test_file,
   error |-> IF ~result.success /\ result.error_message # None
               THEN result.error_message ELSE None]

\* _print_test_result when verbose
PrintIfVerbose(log, i) == IF config.verbose THEN Append(log, i) ELSE log

\* -------------------------------------------------- _run_sequential_tests
\* line 134: the loop calls _run_single_test for the next test file
SeqCall ==
  /\ pc = "sequential"
  /\ seq_i <= Len(test_files)
  /\ ustate[seq_i] = "Pending"
  /\ ustate' = [ustate EXCEPT ![seq_i] = "Running"]
  /\ hist' = [hist EXCEPT !.started = Append(@, seq_i)]
  /\ UNCHANGED <<derivation, top, nested, bats_installed, environ, pc,
                 config, test_files, ret, results, collected, seq_i,
                 returned, calls,
                 max_calls>>

\* lines 135-138: record the result, print it when verbose, go on
SeqRecord ==
  /\ pc = "sequential"
  /\ seq_i <= Len(test_files)
  /\ ustate[seq_i] \in Terminal
  /\ results' = Append(results, ret[seq_i][1])
  /\ collected' = collected \cup {seq_i}
  /\ hist' = [hist EXCEPT !.printed = PrintIfVerbose(@, seq_i)]
  /\ seq_i' = seq_i + 1
  /\ UNCHANGED <<derivation, top, nested, bats_installed, environ, pc,
                 config, test_files, ustate, ret, returned, calls,
                 max_calls>>

\* line 140
SeqReturn ==
  /\ pc = "sequential"
  /\ seq_i > Len(test_files)
  /\ pc' = "summary"
  /\ UNCHANGED <<derivation, top, nested, bats_installed, environ, config,
                 test_files, ustate, ret, results, collected, seq_i,
                 returned, calls,
                 max_calls, hist>>

\* ---------------------------------------------------- _run_parallel_tests
\* a pool that starts one thread per submitted unit
PoolHasIdleWorker_Unbounded(running, max_workers) == TRUE

\* ThreadPoolExecutor(max_workers=max_parallel): a unit is taken from the
\* work queue only by one of at most max_workers threads, each running one
\* unit at a time
PoolHasIdleWorker(running, max_workers) == Cardinality(running) < max_workers

\* the work queue is first-in first-out: the next unit is the first pending
NextQueued(i) == ustate[i] = "Pending" /\ \A j \in 1..(i-1) : ustate[j] # "Pending"

\* lines 147-152: a pool thread takes unit i and calls _run_single_test
WorkerStart(i) ==
  /\ pc = "parallel"
  /\ i \in Units
  /\ NextQueued(i)
  /\ PoolHasIdleWorker(Running, config.max_parallel)
  /\ ustate' = [ustate EXCEPT ![i] = "Running"]
  /\ hist' = [hist EXCEPT !.started = Append(@, i)]
  /\ UNCHANGED <<derivation, top, nested, bats_installed, environ, pc,
                 config, test_files, ret, results, collected, seq_i,
                 returned, calls,
                 max_calls>>

\* lines 155-162: as_completed yields a finished unit; its result is
\* appended and printed when verbose.  (The except clause of lines 163-173
\* needs future.result() to raise, and _run_single_test returns a
\* TestResult on every path.)
Collect(i) ==
  /\ pc = "parallel"
  /\ i \in Units \ collected
  /\ ustate[i] \in Terminal
  /\ results' = Append(results, ret[i][1])
  /\ collected' = collected \cup {i}
  /\ hist' = [hist EXCEPT !.printed = PrintIfVerbose(@, i)]
  /\ UNCHANGED <<derivation, top, nested, bats_installed, environ, pc,
                 config, test_files, ustate, ret, seq_i, returned, calls,
                 max_calls>>

\* line 175, after the pool has shut down
ParReturn ==
  /\ pc = "parallel"
  /\ collected = Units
  /\ pc' = "summary"
  /\ UNCHANGED <<derivation, top, nested, bats_installed, environ, config,
                 test_files, ustate, ret, results, collected, seq_i,
                 returned, calls,
                 max_calls, hist>>

\* ------------------------------------------------------ _run_docker_tests
\* the docker result taking any exit code but 1 for a success
DockerResult_NotOne(returncode) ==
  TestResult(DockerCompose, returncode # 1, "stdout", returncode,
             IF returncode # 0 THEN "stderr" ELSE None)

\* _run_docker_tests, lines 206-213
DockerResult(returncode) == CompletedResult(DockerCompose, returncode)

\* the ways the docker-compose invocation of lines 198-203 can end: the
\* process exits with a return code, the timeout expires, or the launch
\* raises
DockerOutcomes ==
  {[kind |-> "exit", rc |-> rc] : rc \in ReturnCodes}
  \cup {[kind |-> "timeout", rc |-> -1], [kind |-> "error", rc |-> -1]}

\* _run_docker_tests, lines 205-234
DockerReturn(o) ==
  IF o.kind = "exit" THEN DockerResult(o.rc)
  ELSE IF o.kind = "timeout"
    THEN TestResult(DockerCompose, FALSE, "", 1, "Docker execution timed out")
  ELSE ErrorResult(DockerCompose, "exception")

\* lines 179-203: refuse when docker is not enabled, generate the compose
\* file when it is missing, launch docker-compose
RunDockerTests ==
  /\ pc = "docker"
  /\ IF ~config.docker_enabled
       THEN /\ pc' = "idle"
            /\ returned' = Raised("Docker is not enabled in configuration")
            /\ UNCHANGED hist
       ELSE /\ pc' = "docker_wait"
            /\ \E compose_exists \in BOOLEAN :
                 hist' = [hist EXCEPT
                            !.compose_made = IF compose_exists THEN @ ELSE @ + 1,
                            !.docker_runs = @ + 1]
            /\ UNCHANGED returned
  /\ UNCHANGED <<derivation, top, nested, bats_installed, environ, config, test_files,
                 ustate, ret, results, collected, seq_i, calls, max_calls>>

\* lines 205-234: docker-compose exits, times out or could not be launched
DockerExit ==
  /\ pc = "docker_wait"
  /\ \E o \in DockerOutcomes :
       /\ results' = <<DockerReturn(o)>>
       /\ hist' = [hist EXCEPT !.docker_out = <<o>>]
  /\ pc' = "summary"
  /\ UNCHANGED <<derivation, top, nested, bats_installed, environ, config,
                 test_files, ustate, ret, collected, seq_i, returned, calls,
                 max_calls>>

\* ---------------------------------------------------------------- summary
\* run_tests, lines 75-87
Summarize ==
  /\ pc = "summary"
  /\ returned' = Returned(Aggregate(results))
  /\ pc' = "idle"
  /\ UNCHANGED <<derivation, top, nested, bats_installed, environ, config,
                 test_files, ustate, ret, results, collected, seq_i, calls,
                 max_calls, hist>>

Next ==
  \/ LoadConfigRaises
  \/ RunTests
  \/ SetupEnvironment
  \/ Dispatch
  \/ SeqCall
  \/ SeqRecord
  \/ SeqReturn
  \/ \E i \in Units : WorkerStart(i)
  \/ \E i \in Units : RunSingleTest(i)
  \/ \E i \in Units : Collect(i)
  \/ ParReturn
  \/ RunDockerTests
  \/ DockerExit
  \/ Summarize

Spec == Init /\ [][Next]_vars

SpecLib == InitLib /\ [][Next]_vars

TypeOK ==
  /\ top \subseteq FileIds /\ nested \subseteq FileIds
  /\ pc \in {"idle", "setup", "dispatch", "sequential", "parallel", "docker",
             "docker_wait", "summary", "exit"}
  /\ config \in Configs
  /\ calls \in 0..max_calls

\* the `run` command over a short list of test files
InitFair == InitWith(MaxFairUnits, CliCalls) /\ NoDerivation

\* the scheduler runs every thread that can take a step, and every external
\* process ends (by exiting or by its timeout)
SpecFair == InitFair /\ [][Next]_vars /\ WF_vars(Next)

\* ------------------------------------------------ get_endpoint_test_cases
Digits == <<"0", "1", "2", "3", "4", "5", "6", "7", "8", "9">>
IsDigit(c) == \E d \in 1..10 : Digits[d] = c
DigitValue(c) == (CHOOSE d \in 1..10 : Digits[d] = c) - 1

\* str.startswith(prefix), for a prefix of one character
startswith(s, prefix) == s # <<>> /\ s[1] = prefix

\* int(s) raises ValueError unless s is a decimal numeral
IntRaises(s) == s = <<>> \/ \E i \in 1..Len(s) : ~IsDigit(s[i])

\* int(s) for a decimal numeral s
RECURSIVE int(_)
int(s) ==
  IF s = <<>> THEN 0
  ELSE 10 * int(SubSeq(s, 1, Len(s) - 1)) + DigitValue(s[Len(s)])

\* keys of a responses object: status codes, a status code range, `default`
StatusCodes == {<<"2", "0", "0">>, <<"2", "0", "1">>, <<"4", "0", "4">>, <<"5", "0", "0">>, <<"4", "X", "X">>, <<"d", "e", "f", "a", "u", "l", "t">>}

\* response definitions; the schemas are "Pet", "Text"
ResponseDefs ==
  { EmptyDict,
    [description |-> <<"O", "K">>],
    [description |-> <<"O", "K">>,
     content |-> ("application/json" :> [schema |-> "Pet"])],
    [description |-> <<"O", "K">>, content |-> ("application/json" :> EmptyDict)],
    [content |-> ("text/plain" :> [schema |-> "Text"])] }

\* Endpoint.responses: the entries of the dict in its iteration order
ResponseMaps ==
  UNION { { rs \in [1..n -> [status_code : StatusCodes,
                              response_def : ResponseDefs]] :
              \A i, j \in 1..n :
                i # j => rs[i].status_code # rs[j].status_code }
          : n \in 0..MaxResponses }

EndpointArgs ==
  {[method |-> "GET", path |-> "/pets", responses |-> rs] : rs \in ResponseMaps}

\* lines 225-229: the position of the first entry whose status code starts
\* with '2', where the loop breaks; 0 when there is none
FirstSuccess(responses) ==
  LET hits == {k \in 1..Len(responses) :
                 startswith(responses[k].status_code, "2")}
  IN IF hits = {} THEN 0 ELSE CHOOSE k \in hits : \A j \in hits : k <= j

\* .get('content', {}).get('application/json', {}).get('schema')
ResponseSchema(response_def) ==
  Get(Get(Get(response_def, "content", EmptyDict),
          "application/json", EmptyDict),
      "schema", None)

\* lines 242-253: one case per entry whose status code starts with '4' or
\* '5', in iteration order
RECURSIVE ErrorCases(_, _)
ErrorCases(ep, responses) ==
  IF responses = <<>> THEN <<>>
  ELSE LET status_code == Head(responses).status_code
           response_def == Head(responses).response_def
       IN (IF startswith(status_code, "4") \/ startswith(status_code, "5")
             THEN <<[name |-> <<ep.method, ep.path, "returns", status_code>>,
                     method |-> ep.method,
                     path |-> ep.path,
                     expected_status |-> int(status_code),
                     response_schema |-> ResponseSchema(response_def),
                     test_type |-> "error"]>>
             ELSE <<>>)
          \o ErrorCases(ep, Tail(responses))

\* OpenAPIParser.get_endpoint_test_cases, lines 220-255
get_endpoint_test_cases(ep) ==
  LET responses == ep.responses
      first == FirstSuccess(responses)
      \* line 231, `if success_response:`: an empty dict counts as false
      has_success == first # 0 /\ DOMAIN responses[first].response_def # {}
      raises ==
        \/ has_success /\ IntRaises(responses[first].status_code)
        \/ \E k \in 1..Len(responses) :
             /\ startswith(responses[k].status_code, "4")
                  \/ startswith(responses[k].status_code, "5")
             /\ IntRaises(responses[k].status_code)
      success_cases ==
        IF has_success
          THEN <<[name |-> <<ep.method, ep.path, "returns",
                             Get(responses[first].response_def,
                                 "description", <<"s", "u", "c", "c", "e", "s", "s">>)>>,
                  method |-> ep.method,
                  path |-> ep.path,
                  expected_status |-> int(responses[first].status_code),
                  response_schema |->
                    ResponseSchema(responses[first].response_def),
                  test_type |-> "success"]>>
          ELSE <<>>
  IN IF raises THEN Raises("ValueError")
     ELSE Returns(success_cases \o ErrorCases(ep, responses))

\* a caller derives the test cases of an endpoint
GetEndpointTestCases ==
  /\ test_cases.kind = "none"
  /\ test_cases' = get_endpoint_test_cases(endpoint)
  /\ UNCHANGED <<engine, endpoint, schema, test_data,
                 endpoints, exclude, include_only, filtered_endpoints,
                 invocation>>

InitCases ==
  /\ EngineIdle
  /\ endpoint \in EndpointArgs
  /\ test_cases = NoCall
  /\ NoData /\ NoFilter /\ NoInvocation

NextCases == GetEndpointTestCases

\* one call of get_endpoint_test_cases on any endpoint
SpecCases == InitCases /\ [][NextCases]_vars

\* ---------------------------------------------------- _generate_test_data
LowerCase == <<"a", "b", "c", "d", "e", "f", "g", "h", "i", "j", "k", "l", "m",
               "n", "o", "p", "q", "r", "s", "t", "u", "v", "w", "x", "y", "z">>
UpperCase == <<"A", "B", "C", "D", "E", "F", "G", "H", "I", "J", "K", "L", "M",
               "N", "O", "P", "Q", "R", "S", "T", "U", "V", "W", "X", "Y", "Z">>
IsLower(c) == \E n \in 1..26 : LowerCase[n] = c
IsUpper(c) == \E n \in 1..26 : UpperCase[n] = c
ToLower(c) ==
  IF IsUpper(c) THEN LowerCase[CHOOSE n \in 1..26 : UpperCase[n] = c] ELSE c
ToUpper(c) ==
  IF IsLower(c) THEN UpperCase[CHOOSE n \in 1..26 : LowerCase[n] = c] ELSE c

\* a comparison of the field name as it is written
lower_AsWritten(s) == s

\* str.lower()
lower(s) == [i \in 1..Len(s) |-> ToLower(s[i])]

\* str.title(): a letter is upper case after a character that is no letter
\* and lower case after a letter
title(s) ==
  [i \in 1..Len(s) |->
     IF i = 1 \/ ~(IsLower(s[i - 1]) \/ IsUpper(s[i - 1]))
       THEN ToUpper(s[i]) ELSE ToLower(s[i])]

\* names of schema properties
FieldNames == {<<"e", "m", "a", "i", "l">>, <<"E", "-", "M", "a", "i", "l">>, <<"n", "a", "m", "e">>, <<"T", "I", "T", "L", "E">>, <<"u", "u", "i", "d">>, <<"a", "g", "e">>}

\* 42.0
Float42 == [mantissa |-> 420, exponent |-> -1]

\* schemas of properties: the JSON types, an unhandled type, a reference
\* without a type, and objects nested one and two levels deep
FieldSchemas ==
  { [type |-> "string"], [type |-> "integer"], [type |-> "number"],
    [type |-> "boolean"], [type |-> "array"], [type |-> "null"],
    ("$ref" :> "#/components/schemas/Pet"),
    [type |-> "object"],
    [type |-> "object",
     properties |-> (<<"e", "m", "a", "i", "l">> :> [type |-> "string"]
                     @@ <<"a", "g", "e">> :> [type |-> "integer"])],
    [type |-> "object",
     properties |->
       (<<"n", "a", "m", "e">> :>
          [type |-> "object",
           properties |-> (<<"u", "u", "i", "d">> :> [type |-> "string"]
                           @@ <<"a", "g", "e">> :> [type |-> "null"])])] }

\* the schemas given to the synthesis: {} and the object schemas with at
\* most MaxProperties properties
SchemaArgs ==
  {EmptyDict} \cup
  {[type |-> "object", properties |-> ps] :
     ps \in UNION {[names -> FieldSchemas] :
                     names \in {n \in SUBSET FieldNames :
                                  Cardinality(n) <= MaxProperties}}}

\* lines 60-68: the value of a string property
StringValue(field_name) ==
  IF lower(field_name) \in {<<"e", "m", "a", "i", "l">>, <<"e", "-", "m", "a", "i", "l">>}
    THEN <<"t", "e", "s", "t", "@", "e", "x", "a", "m", "p", "l", "e", ".", "c", "o", "m">>
  ELSE IF lower(field_name) \in {<<"n", "a", "m", "e">>, <<"t", "i", "t", "l", "e">>}
    THEN <<"T", "e", "s", "t", " ">> \o title(field_name)
  ELSE IF lower(field_name) \in {<<"i", "d">>, <<"u", "u", "i", "d">>}
    THEN <<"t", "e", "s", "t", "-", "i", "d", "-", "1", "2", "3">>
  ELSE <<"t", "e", "s", "t", "_">> \o field_name

\* the types the chain of lines 60-78 has a branch for
HandledTypes == {"string", "integer", "number", "boolean", "array", "object"}

\* TemplateEngine._generate_test_data, lines 48-80: a property whose type
\* has no branch gets no entry
RECURSIVE _generate_test_data(_)
_generate_test_data(sch) ==
  IF DOMAIN sch = {} THEN EmptyDict
  ELSE
    LET properties == Get(sch, "properties", EmptyDict)
        field_type(f) == Get(properties[f], "type", "string")
    IN [field_name \in {f \in DOMAIN properties : field_type(f) \in HandledTypes}
          |-> LET t == field_type(field_name)
              IN IF t = "string" THEN StringValue(field_name)
                 ELSE IF t = "integer" THEN 42
                 ELSE IF t = "number" THEN Float42
                 ELSE IF t = "boolean" THEN TRUE
                 ELSE IF t = "array" THEN <<<<"i", "t", "e", "m", "1">>, <<"i", "t", "e", "m", "2">>>>
                 ELSE _generate_test_data(properties[field_name])]

\* a template asks for the test data of a schema
GenerateTestData ==
  /\ test_data.kind = "none"
  /\ test_data' = Returns(_generate_test_data(schema))
  /\ UNCHANGED <<engine, endpoint, test_cases, schema,
                 endpoints, exclude, include_only, filtered_endpoints,
                 invocation>>

InitData ==
  /\ EngineIdle
  /\ schema \in SchemaArgs
  /\ test_data = NoCall
  /\ NoCases /\ NoFilter /\ NoInvocation

NextData == GenerateTestData

\* one call of _generate_test_data on any schema
SpecData == InitData /\ [][NextData]_vars

\* ------------------------------------------------------ _filter_endpoints
Paths == {"/a", "/b", "/c"}

\* the Endpoints of a document, reduced to path and method
EndpointLists ==
  UNION {[1..n -> [path : Paths, method : {"GET", "POST"}]]
           : n \in 0..MaxEndpoints}

\* test_generation.exclude_endpoints, test_generation.include_only
PathLists == UNION {[1..n -> Paths] : n \in 0..MaxListed}

\* x in list
In(x, list) == \E i \in 1..Len(list) : list[i] = x

\* the filter taking the exclusion list first
_filter_endpoints_ExcludeFirst(eps, excl, incl) ==
  LET included(ep) == In(ep.path, incl)
      not_excluded(ep) == ~In(ep.path, excl)
  IN IF excl # <<>> THEN SelectSeq(eps, not_excluded)
     ELSE IF incl # <<>> THEN SelectSeq(eps, included)
     ELSE eps

\* TestGenerator._filter_endpoints, lines 52-60
_filter_endpoints(eps, excl, incl) ==
  LET included(ep) == In(ep.path, incl)
      not_excluded(ep) == ~In(ep.path, excl)
  IN IF incl # <<>> THEN SelectSeq(eps, included)
     ELSE IF excl # <<>> THEN SelectSeq(eps, not_excluded)
     ELSE eps

\* generate_tests, line 35
FilterEndpoints ==
  /\ filtered_endpoints.kind = "none"
  /\ filtered_endpoints' =
       Returns(_filter_endpoints(endpoints, exclude, include_only))
  /\ UNCHANGED <<engine, endpoint, test_cases, schema, test_data,
                 endpoints, exclude, include_only, invocation>>

InitFilter ==
  /\ EngineIdle
  /\ endpoints \in EndpointLists
  /\ exclude \in PathLists
  /\ include_only \in PathLists
  /\ filtered_endpoints = NoCall
  /\ NoCases /\ NoData /\ NoInvocation

NextFilter == FilterEndpoints

\* one call of _filter_endpoints on any endpoints and lists
SpecFilter == InitFilter /\ [][NextFilter]_vars

\* ------------------------------------------------------------ properties
InStrategy(m) == calls > 0 /\ test_files # <<>> /\ Strategy(config) = m
HasReturned == pc = "idle" /\ returned.kind = "returned"
Pending == {i \in Units : ustate[i] = "Pending"}
Finished == {i \in Units : ustate[i] \in Terminal}

C2_TimedOut ==
  /\ \A i \in Units : ustate[i] = "TimedOut" =>
       /\ Len(ret[i]) = 1
       /\ ret[i][1].success = FALSE
       /\ ret[i][1].exit_code = 1
       /\ ret[i][1].error_message = "Test timed out"
       /\ ret[i][1].test_file = test_files[i]
  /\ (pc = "parallel" /\ \E i \in Units : ustate[i] = "TimedOut") =>
       /\ (Pending # {} /\ Cardinality(Running) < config.max_parallel)
            => ENABLED (\E j \in Units : WorkerStart(j))
       /\ \A j \in Running : ENABLED RunSingleTest(j)
  /\ (InStrategy("parallel") /\ HasReturned) =>
       \A i \in Units :
         /\ ustate[i] \in Terminal
         /\ Cardinality({k \in 1..Len(results) : results[k] = ret[i][1]}) >= 1

\* a unit has timed out while a sibling is still queued and another one
\* passes afterwards
C2_Witness ==
  /\ pc = "parallel"
  /\ \E i, j, k \in Units :
       /\ i < j /\ j < k
       /\ ustate[i] = "TimedOut" /\ ustate[j] = "Passed"
       /\ ustate[k] = "Pending"

\* a unit is in one state, and has one TestResult iff that state is terminal
C3_StateOK ==
  \A i \in Units :
    /\ ustate[i] \in {"Pending", "Running"} \cup Terminal
    /\ ustate[i] \in Terminal <=> hist.made[i] = 1
    /\ ustate[i] \notin Terminal <=> hist.made[i] = 0
    /\ Len(ret[i]) = hist.made[i]
    /\ ustate[i] = "Passed" => ret[i][1].success
    /\ ustate[i] \in Terminal \ {"Passed"} => ~ret[i][1].success

\* a unit's state only moves Pending -> Running -> terminal
C3_StepOK ==
  \A i \in Units \cap DOMAIN ustate' :
    (calls' = calls /\ ustate'[i] # ustate[i]) =>
       \/ ustate[i] = "Pending" /\ ustate'[i] = "Running"
       \/ ustate[i] = "Running" /\ ustate'[i] \in Terminal

\* C3: one run of one test file goes Pending -> Running -> exactly one of
\* Passed, Failed, TimedOut, Errored, it always gets there, and exactly one
\* TestResult is built for it.
C3_UnitLifecycle ==
  /\ []C3_StateOK
  /\ [][C3_StepOK]_vars
  /\ \A i \in 1..MaxFairUnits :
       (i \in Units /\ pc \in {"sequential", "parallel"})
          ~> (i \in Units /\ ustate[i] \in Terminal)

\* a run has returned after one unit timed out and another one raised
C3_Witness ==
  /\ \E i, j \in Units : ustate[i] = "TimedOut" /\ ustate[j] = "Errored"
  /\ bats_installed
  /\ HasReturned

\* C4: artifact discovery lists each .bats file once, bats is invoked once
\* per file and no two results refer to the same file.
C4_OneResultPerArtifact ==
  /\ \A i, j \in 1..Len(test_files) : i # j => test_files[i] # test_files[j]
  /\ (InStrategy("sequential") \/ InStrategy("parallel")) /\ HasReturned =>
       \A i, j \in 1..Len(returned.value.results) :
         i # j => returned.value.results[i].test_file
                    # returned.value.results[j].test_file

\* C5: the ExecutionResults handed back counts the list it carries:
\* total = length, passed = number of successes, failed = total - passed,
\* success = (failed = 0).
C5_Summary ==
  HasReturned =>
    LET r == returned.value
        ok == {k \in 1..Len(r.results) : r.results[k].success}
    IN /\ r.results = results
       /\ r.total_tests = Len(results)
       /\ r.passed_tests = Cardinality(ok)
       /\ r.failed_tests = r.total_tests - r.passed_tests
       /\ r.success = (r.failed_tests = 0)
       /\ r.success = (\A k \in 1..Len(results) : results[k].success)

\* [pass, pass, fail] was summarised as total 3, passed 2, failed 1, failure
C5_Witness ==
  /\ HasReturned
  /\ Len(results) = 3
  /\ results[1].success /\ results[2].success /\ ~results[3].success
  /\ returned.value.total_tests = 3 /\ returned.value.passed_tests = 2
  /\ returned.value.failed_tests = 1 /\ ~returned.value.success

IsSorted(s) == \A i \in 1..(Len(s) - 1) : s[i] <= s[i + 1]

\* C6: in sequential mode the test files are run one at a time in sorted
\* path order: a unit starts only when the results of all units before it
\* are recorded (and printed, when verbose), and the i-th result is the one
\* of the i-th test file.
C6_Sequential ==
  InStrategy("sequential") /\ returned.kind # "raised" =>
    /\ IsSorted(test_files)
    /\ Cardinality(Running) <= 1
    /\ hist.started = [k \in 1..Len(hist.started) |-> k]
    /\ \A i \in Units : ustate[i] # "Pending" =>
         \A j \in 1..(i - 1) : ustate[j] \in Terminal /\ j <= Len(results)
    /\ Len(results) <= Len(test_files)
    /\ \A k \in 1..Len(results) :
         /\ results[k] = ret[k][1]
         /\ results[k].test_file = test_files[k]
    /\ hist.printed = IF config.verbose THEN [k \in 1..Len(results) |-> k]
                                         ELSE <<>>

\* a verbose sequential run over distinct files: two results recorded, the
\* third file running
C6_Witness ==
  /\ pc = "sequential" /\ config.verbose
  /\ Len(results) = 2 /\ Len(test_files) = 3
  /\ test_files[1] # test_files[3]
  /\ results[1].success /\ ~results[2].success
  /\ ustate[3] = "Running"

\* C7: without the bats binary the run fails with a fatal error after one
\* availability check: no test file is run and no TestResult is built.
C7_FailFast ==
  (~bats_installed /\ (InStrategy("sequential") \/ InStrategy("parallel"))) =>
    /\ hist.bats_checks <= 1
    /\ \A i \in Units : hist.made[i] = 0 /\ hist.bats_runs[i] = 0
    /\ results = <<>>
    /\ returned.kind # "returned"

\* the preparation has run once wherever a strategy can be running
C8_SetupBefore ==
  /\ hist.setup <= 1
  /\ (pc \in {"dispatch", "sequential", "parallel", "docker", "docker_wait",
              "summary"} \/ HasReturned) => hist.setup = 1
  /\ (hist.started # <<>> \/ hist.docker_runs > 0) => hist.setup = 1

\* os.environ changes only in the preparation step
C8_OnlySetupWrites == environ' # environ => pc = "setup" /\ pc' = "dispatch"

\* C8: in each run_tests call that executes anything the environment is
\* prepared exactly once, before the first unit starts and before
\* docker-compose is launched, and only that preparation writes the
\* environment.
C8_SetupOnce == []C8_SetupBefore /\ [][C8_OnlySetupWrites]_vars

\* in a second call the environment is prepared once and a unit is running
C8_Witness ==
  /\ calls = 2 /\ hist.setup = 1
  /\ pc = "parallel" /\ Running # {}


\* the auth schemes that have a variable set in os.environ
SchemesSet ==
  {sc \in {"bearer", "basic", "api_key"} :
     \/ sc = "bearer" /\ environ["AUTH_TOKEN"] # Unset
     \/ sc = "basic" /\ (environ["AUTH_USERNAME"] # Unset
                            \/ environ["AUTH_PASSWORD"] # Unset)
     \/ sc = "api_key" /\ (environ["API_KEY"] # Unset
                              \/ environ["API_KEY_HEADER"] # Unset)}

\* C9: after any sequence of run_tests calls the environment holds the auth
\* variables of at most one scheme.
C9_AuthExclusive == Cardinality(SchemesSet) <= 1

\* C10: containerized mode with docker enabled launches docker-compose once
\* and bats never, and hands back one TestResult: success iff docker-compose
\* exited with 0, and success false with exit code 1 when it timed out or
\* could not be launched.
C10_Docker ==
  (InStrategy("docker") /\ config.docker_enabled) =>
    /\ hist.docker_runs <= 1
    /\ hist.bats_checks = 0
    /\ \A i \in Units : hist.bats_runs[i] = 0 /\ hist.made[i] = 0
    /\ pc \in {"docker_wait", "summary"} \/ HasReturned => hist.docker_runs = 1
    /\ pc = "summary" \/ HasReturned =>
         /\ Len(results) = 1 /\ Len(hist.docker_out) = 1
         /\ results[1].test_file = DockerCompose
         /\ results[1].success <=>
              (hist.docker_out[1].kind = "exit" /\ hist.docker_out[1].rc = 0)
         /\ hist.docker_out[1].kind = "exit" =>
              results[1].exit_code = hist.docker_out[1].rc
         /\ hist.docker_out[1].kind # "exit" =>
              ~results[1].success /\ results[1].exit_code = 1
    /\ HasReturned => returned.value.results = results

\* docker-compose exited with a non-zero code over several test files
C10_Witness ==
  /\ InStrategy("docker") /\ config.docker_enabled /\ HasReturned
  /\ Len(test_files) > 1
  /\ hist.docker_out[1].kind = "exit" /\ hist.docker_out[1].rc # 0
  /\ ~returned.value.success

\* a TestResult whose success flag says that the exit code is 0 and that
\* carries an error message only when it failed
ResultOK(r) ==
  /\ r.success <=> r.exit_code = 0
  /\ r.success => r.error_message = None

\* C11: every TestResult built by any strategy has success = TRUE exactly
\* when its exit code is 0, and has no error message when it succeeded.
C11_SuccessIffZero ==
  /\ \A i \in Units : \A k \in 1..Len(ret[i]) : ResultOK(ret[i][k])
  /\ \A k \in 1..Len(results) : ResultOK(results[k])
  /\ returned.kind = "returned" =>
       \A k \in 1..Len(returned.value.results) :
         ResultOK(returned.value.results[k])

\* a run handed back a success, a non-zero exit and a timeout
C11_Witness ==
  /\ HasReturned
  /\ \E a, b, c \in 1..Len(returned.value.results) :
       /\ returned.value.results[a].success
       /\ returned.value.results[b].exit_code = 2
       /\ returned.value.results[c].error_message = "Test timed out"

RunEnded == pc = "exit" \/ (pc = "idle" /\ returned.kind # "none")

\* C13: the run command exits with 0 exactly when run_tests returned and
\* every TestResult succeeded; it exits with a non-zero code when a test
\* failed and when the configuration could not be loaded, no test file was
\* found or docker was requested but is not enabled.
C13_ExitCode ==
  RunEnded =>
    /\ RunExitCode(returned) = 0 <=>
         /\ returned.kind = "returned"
         /\ \A k \in 1..Len(results) : results[k].success
    /\ returned.kind = "raised" <=>
         \/ calls = 0
         \/ test_files = <<>>
         \/ config.docker /\ ~config.docker_enabled
    /\ returned.kind = "raised" => RunExitCode(returned) # 0

\* docker was requested but is not enabled: the command ended with 1 after
\* the environment was prepared
C13_Witness ==
  /\ RunEnded
  /\ returned.error = "Docker is not enabled in configuration"
  /\ hist.setup = 1
  /\ RunExitCode(returned) = 1

\* C14: when a run ends with a failing TestResult, the console names every
\* failing test file together with the reason of its failure.
C14_FailuresShown ==
  (RunEnded /\ returned.kind = "returned" /\ ~returned.value.success) =>
    \A k \in 1..Len(results) : ~results[k].success =>
      /\ k <= Len(hist.printed)
      /\ PrintTestResult(results[k]).error # None

\* positions of the responses whose status code starts with '2'
Keys2 ==
  {k \in 1..Len(endpoint.responses) :
     startswith(endpoint.responses[k].status_code, "2")}

\* positions of the responses whose status code starts with '4' or '5'
Keys45 ==
  {k \in 1..Len(endpoint.responses) :
     \/ startswith(endpoint.responses[k].status_code, "4")
     \/ startswith(endpoint.responses[k].status_code, "5")}

CasesOfType(t) ==
  {c \in 1..Len(test_cases.value) : test_cases.value[c].test_type = t}

\* C15: get_endpoint_test_cases returns, with exactly one success case when
\* some status code starts with '2' and with none otherwise; one 2xx and one
\* 4xx response give one success case and one error case.
C15_OneSuccessCase ==
  test_cases.kind # "none" =>
    /\ test_cases.kind = "returned"
    /\ Cardinality(CasesOfType("success")) = IF Keys2 # {} THEN 1 ELSE 0
    /\ (Cardinality(Keys2) = 1 /\ Cardinality(Keys45) = 1) =>
         Cardinality(CasesOfType("error")) = 1

\* C16: with several status codes starting with '2' the success case expects
\* the numerically smallest of them, wherever it stands in the responses.
C16_SmallestSuccess ==
  (test_cases.kind = "returned" /\ Cardinality(Keys2) >= 2) =>
    \A c \in CasesOfType("success") :
      \A k \in Keys2 :
        test_cases.value[c].expected_status
          <= int(endpoint.responses[k].status_code)

\* C17: get_endpoint_test_cases returns one error case per status code that
\* starts with '4' or '5', expecting that status and carrying the schema of
\* the response's application/json content (None without one), and no case
\* for a status code that starts with none of '2', '4', '5'.
C17_ErrorCases ==
  test_cases.kind # "none" =>
    /\ test_cases.kind = "returned"
    /\ Cardinality(CasesOfType("error")) = Cardinality(Keys45)
    /\ \A k \in Keys45 :
         LET status_code == endpoint.responses[k].status_code
             response_def == endpoint.responses[k].response_def
             json == IF "content" \in DOMAIN response_def
                          /\ "application/json" \in DOMAIN response_def.content
                       THEN response_def.content["application/json"]
                       ELSE EmptyDict
         IN \E c \in CasesOfType("error") :
              /\ ~IntRaises(status_code)
              /\ test_cases.value[c].expected_status = int(status_code)
              /\ test_cases.value[c].response_schema =
                   IF "schema" \in DOMAIN json THEN json.schema ELSE None
    /\ Len(test_cases.value)
         = Cardinality(CasesOfType("success")) + Cardinality(Keys45)

\* the string the claim gives a string property of each name
ExpectedString ==
  (<<"e", "m", "a", "i", "l">> :> <<"t", "e", "s", "t", "@", "e", "x", "a", "m", "p", "l", "e", ".", "c", "o", "m">>
   @@ <<"E", "-", "M", "a", "i", "l">> :> <<"t", "e", "s", "t", "@", "e", "x", "a", "m", "p", "l", "e", ".", "c", "o", "m">>
   @@ <<"n", "a", "m", "e">> :> <<"T", "e", "s", "t", " ", "N", "a", "m", "e">>
   @@ <<"T", "I", "T", "L", "E">> :> <<"T", "e", "s", "t", " ", "T", "i", "t", "l", "e">>
   @@ <<"u", "u", "i", "d">> :> <<"t", "e", "s", "t", "-", "i", "d", "-", "1", "2", "3">>
   @@ <<"a", "g", "e">> :> <<"t", "e", "s", "t", "_", "a", "g", "e">>)

\* data is the instance described for the object schema sch, with an entry
\* for the properties whose type is in `typed`
RECURSIVE Synthesized(_, _, _)
Synthesized(sch, data, typed) ==
  LET properties ==
        IF "properties" \in DOMAIN sch THEN sch.properties ELSE EmptyDict
      TypeOf(f) ==
        IF "type" \in DOMAIN properties[f] THEN properties[f].type
                                            ELSE "string"
  IN /\ DOMAIN data = {f \in DOMAIN properties : TypeOf(f) \in typed}
     /\ \A f \in DOMAIN data :
          CASE TypeOf(f) = "string" -> data[f] = ExpectedString[f]
            [] TypeOf(f) = "integer" -> data[f] = 42
            [] TypeOf(f) = "number" -> data[f] = Float42
            [] TypeOf(f) = "boolean" -> data[f] = TRUE
            [] TypeOf(f) = "array" -> Len(data[f]) = 2
            [] TypeOf(f) = "object" ->
                 Synthesized(properties[f], data[f], typed)
            [] OTHER -> TRUE

EmailSchema ==
  [type |-> "object", properties |-> (<<"e", "m", "a", "i", "l">> :> [type |-> "string"])]

\* the synthesis has an entry for every declared property, chosen by its
\* type as the mapping says
C19_EntryPerProperty ==
  test_data.kind = "returned" =>
    /\ Synthesized(schema, test_data.value,
                   HandledTypes \cup {"null"})
    /\ schema = EmailSchema =>
         test_data.value = (<<"e", "m", "a", "i", "l">> :> <<"t", "e", "s", "t", "@", "e", "x", "a", "m", "p", "l", "e", ".", "c", "o", "m">>)

\* C19: the synthesis has one entry per declared property whose type is
\* string, integer, number, boolean, array or object (a property without a
\* type counts as a string) and none for a property of another type; a string
\* gets 'test@example.com', 'Test <Titled Name>', 'test-id-123' or
\* 'test_<field>' by its name, an integer 42, a number 42.0, a boolean true,
\* an array two items, an object the synthesis of its own properties; the
\* schema with the one string property 'email' gives
\* {'email': 'test@example.com'}.
C19_Synthesis ==
  test_data.kind = "returned" =>
    /\ Synthesized(schema, test_data.value,
                   {"string", "integer", "number", "boolean", "array",
                    "object"})
    /\ schema = EmailSchema =>
         test_data.value = (<<"e", "m", "a", "i", "l">> :> <<"t", "e", "s", "t", "@", "e", "x", "a", "m", "p", "l", "e", ".", "c", "o", "m">>)

\* the property 'E-Mail' got the e-mail address and the property of type
\* null got no entry
C19_Witness ==
  /\ test_data.kind = "returned"
  /\ schema = [type |-> "object",
               properties |-> (<<"E", "-", "M", "a", "i", "l">> :> [type |-> "string"]
                               @@ <<"a", "g", "e">> :> [type |-> "null"])]
  /\ test_data.value = (<<"E", "-", "M", "a", "i", "l">> :> <<"t", "e", "s", "t", "@", "e", "x", "a", "m", "p", "l", "e", ".", "c", "o", "m">>)

\* the set of the elements of a list
Listed(list) == {list[i] : i \in 1..Len(list)}

\* how often x occurs in seq
Count(seq, x) == Cardinality({i \in 1..Len(seq) : seq[i] = x})

\* r is s with some elements left out
RECURSIVE IsSubsequence(_, _)
IsSubsequence(r, s) ==
  IF r = <<>> THEN TRUE
  ELSE IF s = <<>> THEN FALSE
  ELSE IF Head(r) = Head(s) THEN IsSubsequence(Tail(r), Tail(s))
  ELSE IsSubsequence(r, Tail(s))

\* C20: with a non-empty inclusion list the filter hands back exactly the
\* endpoints whose path is in it, whatever the exclusion list holds; with an
\* empty inclusion list exactly the endpoints whose path is not in the
\* exclusion list.
C20_Filter ==
  filtered_endpoints.kind = "returned" =>
    LET r == filtered_endpoints.value
        kept(ep) == IF include_only # <<>>
                      THEN ep.path \in Listed(include_only)
                      ELSE ep.path \notin Listed(exclude)
    IN /\ \A i \in 1..Len(r) : kept(r[i])
       /\ \A ep \in Listed(endpoints) :
            Count(r, ep) = IF kept(ep) THEN Count(endpoints, ep) ELSE 0
       /\ IsSubsequence(r, endpoints)

\* a path stands in both lists: its endpoint was kept and another endpoint
\* was left out
C20_Witness ==
  /\ filtered_endpoints.kind = "returned"
  /\ \E q \in Listed(include_only) \cap Listed(exclude) :
       \E i \in 1..Len(filtered_endpoints.value) :
         filtered_endpoints.value[i].path = q
  /\ Len(filtered_endpoints.value) < Len(endpoints)


\* ------------------------------------------- parser: references (parser.py)
\* A document is a tree of dicts, lists and strings. A dict is the sequence
\* of its entries in document order; keys and strings are sequences of
\* characters.

Dict(entries) == [kind |-> "dict", items |-> entries]
List(elements) == [kind |-> "list", items |-> elements]
Str(text) == [kind |-> "str", value |-> text]
Entry(key, node) == [k |-> key, v |-> node]

\* key in obj
HasKey(obj, key) == \E i \in 1..Len(obj.items) : obj.items[i].k = key

\* obj[key], for a key of obj
Item(obj, key) ==
  obj.items[CHOOSE i \in 1..Len(obj.items) : obj.items[i].k = key].v

\* str.split(sep)
RECURSIVE split(_, _)
split(s, sep) ==
  IF \A i \in 1..Len(s) : s[i] # sep THEN <<s>>
  ELSE LET i == CHOOSE j \in 1..Len(s) :
                  s[j] = sep /\ \A h \in 1..(j - 1) : s[h] # sep
       IN <<SubSeq(s, 1, i - 1)>> \o split(SubSeq(s, i + 1, Len(s)), sep)

\* s[2:]
From2(s) == SubSeq(s, 3, Len(s))

\* a subscript that hands back an empty dict for a missing key
Subscript_EmptyForMissing(resolved, part) ==
  IF resolved.kind = "dict" /\ HasKey(resolved, part)
  THEN Item(resolved, part)
  ELSE Dict(<<>>)

\* line 186, resolved[part]: a dict raises KeyError for a missing key, a
\* list and a str raise TypeError for a subscript that is a str
Subscript(resolved, part) ==
  IF resolved.kind = "dict"
  THEN IF HasKey(resolved, part) THEN Item(resolved, part)
       ELSE Raises("KeyError")
  ELSE Raises("TypeError")

\* lines 184-187: the walk from the root of the document along the pointer
RECURSIVE Walk(_, _)
Walk(resolved, path_parts) ==
  IF path_parts = <<>> \/ resolved.kind = "raised" THEN resolved
  ELSE Walk(Subscript(resolved, Head(path_parts)), Tail(path_parts))

RefKey == <<"$", "r", "e", "f">>

\* one of the results is an exception
AnyRaise(rs) == \E i \in 1..Len(rs) : rs[i].kind = "raised"

\* the first exception among the results, which ends the comprehension
FirstRaise(rs) ==
  rs[CHOOSE i \in 1..Len(rs) :
       rs[i].kind = "raised" /\ \A h \in 1..(i - 1) : rs[h].kind # "raised"]

\* lines 177-196, the nested resolve_ref: the subtree a same-document
\* reference points at is handed back as it stands in the document
RECURSIVE resolve_ref(_, _)
resolve_ref(obj, spec_root) ==
  IF obj.kind = "dict"
  THEN IF HasKey(obj, RefKey)
       THEN LET ref_path == Item(obj, RefKey).value
            IN IF startswith(ref_path, "#")
               THEN Walk(spec_root, split(From2(ref_path), "/"))
               ELSE obj
       ELSE LET rs == [i \in 1..Len(obj.items) |->
                         resolve_ref(obj.items[i].v, spec_root)]
            IN IF AnyRaise(rs) THEN FirstRaise(rs)
               ELSE Dict([i \in 1..Len(rs) |-> Entry(obj.items[i].k, rs[i])])
  ELSE IF obj.kind = "list"
  THEN LET rs == [i \in 1..Len(obj.items) |->
                    resolve_ref(obj.items[i], spec_root)]
       IN IF AnyRaise(rs) THEN FirstRaise(rs) ELSE List(rs)
  ELSE obj

\* OpenAPIParser.resolve_refs
resolve_refs(spec) ==
  LET r == resolve_ref(spec, spec)
  IN IF r.kind = "raised" THEN r ELSE Returns(r)


\* --------------------------------- validation: references (validation.py)

\* str.startswith(prefix)
StartsWith(s, prefix) ==
  Len(s) >= Len(prefix) /\ SubSeq(s, 1, Len(prefix)) = prefix

\* part in text, for two strings
IsSubstring(part, text) ==
  \E i \in 0..(Len(text) - Len(part)) : SubSeq(text, i + 1, i + Len(part)) = part

\* line 157, part in schema: a key of a dict, an element of a list, a
\* substring of a str
Contains(node, part) ==
  IF node.kind = "dict" THEN HasKey(node, part)
  ELSE IF node.kind = "list"
  THEN \E i \in 1..Len(node.items) : node.items[i] = Str(part)
  ELSE IsSubstring(part, node.value)

\* lines 156-159: the walk along the pointer, which tests every part before
\* it takes the subscript
RECURSIVE Navigate(_, _)
Navigate(node, path_parts) ==
  IF path_parts = <<>> \/ node.kind = "raised" THEN node
  ELSE IF ~Contains(node, Head(path_parts))
  THEN Raises("ValueError: Schema reference not found")
  ELSE Navigate(Subscript(node, Head(path_parts)), Tail(path_parts))

\* SchemaValidator._resolve_schema_ref
_resolve_schema_ref(schema_ref, openapi_spec) ==
  IF ~StartsWith(schema_ref, <<"#", "/">>)
  THEN Raises("ValueError: Invalid schema reference")
  ELSE LET r == Navigate(openapi_spec, split(From2(schema_ref), "/"))
       IN IF r.kind = "raised" THEN r ELSE Returns(r)

ValidationResult(ok, messages) == [valid |-> ok, errors |-> messages]

\* SchemaValidator.validate_openapi_schema: conforms tells whether the data
\* conform to the schema the reference points at; every exception becomes
\* a result that is not valid and carries the error
validate_openapi_schema(conforms, schema_ref, openapi_spec) ==
  IF _resolve_schema_ref(schema_ref, openapi_spec).kind = "raised"
  THEN Returns(ValidationResult(FALSE, <<"OpenAPI schema validation error">>))
  ELSE IF conforms THEN Returns(ValidationResult(TRUE, <<>>))
  ELSE Returns(ValidationResult(FALSE, <<"Validation error">>))

\* ------------------------------------------------- documents with references

\* how many definitions a document holds at most
MaxDefs == 2

DefNames == <<<<"a">>, <<"b">>, <<"c">>>>

\* the references of a document: to its definitions a and b, to a
\* definition m it does not hold, into definition a, and to another document
InternalRefs == {<<"#", "/", "d", "/", "a">>, <<"#", "/", "d", "/", "b">>, <<"#", "/", "d", "/", "m">>, <<"#", "/", "d", "/", "a", "/", "k">>}
ExternalRefs == {<<"o", "t", "h", "e", "r", ".", "y", "a", "m", "l", "#", "/", "d", "/", "a">>}
Refs == InternalRefs \cup ExternalRefs

Ref(r) == Dict(<<Entry(RefKey, Str(r))>>)
Leaf == Str(<<"x">>)

\* a schema: a string, a reference, and a dict and a list that hold one
RefNodes ==
  {Leaf, Dict(<<Entry(<<"k">>, Leaf)>>), List(<<Leaf, Ref(<<"#", "/", "d", "/", "m">>)>>)}
    \cup {Ref(r) : r \in Refs}
    \cup {Dict(<<Entry(<<"k">>, Ref(r))>>) : r \in {<<"#", "/", "d", "/", "a">>, <<"#", "/", "d", "/", "b">>, <<"#", "/", "d", "/", "m">>}}

\* the definitions of a document, in the order they are written
RECURSIVE DefEntries(_)
DefEntries(n) ==
  IF n = 0 THEN {<<>>}
  ELSE LET rest == DefEntries(n - 1)
       IN rest \cup {Append(es, Entry(DefNames[n], node)) :
                       es \in {e \in rest : Len(e) = n - 1}, node \in RefNodes}

\* a document with up to n definitions under d and one use of a schema
\* under u
RefDocuments(n) ==
  {Dict(<<Entry(<<"d">>, Dict(es)), Entry(<<"u">>, node)>>) :
     es \in DefEntries(n), node \in RefNodes}

RefArgs(n) == [spec : RefDocuments(n), schema_ref : Refs \cup {<<"d", "/", "a">>}]

\* a caller resolves the references of a document
ResolveRefs ==
  /\ fn = "none"
  /\ fn' = "resolve_refs"
  /\ outcome' = resolve_refs(arg.spec)
  /\ UNCHANGED <<engine, endpoint, test_cases, schema, test_data,
                 endpoints, exclude, include_only, filtered_endpoints,
                 arg, temp_dir, written>>

\* a caller validates data against the schema a reference points at
ValidateOpenapiSchema ==
  /\ fn = "none"
  /\ fn' = "validate_openapi_schema"
  /\ \E conforms \in BOOLEAN :
       outcome' = validate_openapi_schema(conforms, arg.schema_ref, arg.spec)
  /\ UNCHANGED <<engine, endpoint, test_cases, schema, test_data,
                 endpoints, exclude, include_only, filtered_endpoints,
                 arg, temp_dir, written>>

InitRefs ==
  /\ EngineIdle
  /\ NoCases /\ NoData /\ NoFilter
  /\ fn = "none"
  /\ arg \in RefArgs(MaxDefs)
  /\ outcome = NoCall
  /\ temp_dir = FALSE
  /\ written = <<>>

NextRefs == ResolveRefs \/ ValidateOpenapiSchema

SpecRefs == InitRefs /\ [][NextRefs]_vars


\* ---------------------------------------------- properties of the references

\* the references written anywhere in a tree
RECURSIVE RefsIn(_)
RefsIn(node) ==
  IF node.kind = "dict"
  THEN UNION {IF node.items[i].k = RefKey /\ node.items[i].v.kind = "str"
              THEN {node.items[i].v.value}
              ELSE RefsIn(node.items[i].v) : i \in 1..Len(node.items)}
  ELSE IF node.kind = "list"
  THEN UNION {RefsIn(node.items[i]) : i \in 1..Len(node.items)}
  ELSE {}

\* the segments of a same-document pointer '#/s1/s2'
Segments(r) == split(SubSeq(r, 3, Len(r)), "/")

\* every segment names a key of the dict the segments before it lead to
RECURSIVE Present(_, _)
Present(node, segments) ==
  \/ segments = <<>>
  \/ /\ node.kind = "dict"
     /\ \E i \in 1..Len(node.items) :
          /\ node.items[i].k = Head(segments)
          /\ Present(node.items[i].v, Tail(segments))

\* a same-document reference whose pointer names a segment the document
\* does not hold
Dangling(r, document) == r[1] = "#" /\ ~Present(document, Segments(r))

\* C21: when a document holds a same-document reference whose pointer names
\* a segment that is absent, resolve_refs raises and hands back no document,
\* and validate_openapi_schema, asked for such a reference, hands back a
\* result that is not valid and carries the error
C21_MissingFails ==
  /\ (/\ fn = "resolve_refs"
      /\ \E r \in RefsIn(arg.spec) : Dangling(r, arg.spec))
       => outcome.kind = "raised"
  /\ (/\ fn = "validate_openapi_schema"
      /\ Dangling(arg.schema_ref, arg.spec))
       => /\ outcome.kind = "returned"
          /\ ~outcome.value.valid
          /\ outcome.value.errors # <<>>

\* the document defines a, and its use points at a key of a that a does not
\* hold: resolve_refs raised
C21_Witness ==
  /\ fn = "resolve_refs"
  /\ outcome.kind = "raised"
  /\ Present(arg.spec, <<<<"d">>, <<"a">>>>)
  /\ Item(arg.spec, <<"u">>) = Ref(<<"#", "/", "d", "/", "a", "/", "k">>)
  /\ RefsIn(arg.spec) \cap {<<"#", "/", "d", "/", "m">>} = {}


\* C28: the document resolve_refs hands back holds no same-document
\* reference, whatever the referenced subtrees hold themselves, and every
\* reference to another document stands in it as it was written and makes
\* no call raise
C28_NoInternalRefLeft ==
  /\ (fn = "resolve_refs" /\ outcome.kind = "returned")
       => /\ \A r \in RefsIn(outcome.value) : r[1] # "#"
          /\ \A r \in RefsIn(arg.spec) :
               r[1] # "#" => r \in RefsIn(outcome.value)
  /\ (/\ fn = "resolve_refs"
      /\ \A r \in RefsIn(arg.spec) : r[1] # "#")
       => outcome.kind = "returned"


\* ----------------------------------------- parser: validate_spec (parser.py)

\* the document without a check of the version string
validate_spec_NoVersionCheck(spec) ==
  IF "openapi" \notin DOMAIN spec
  THEN Raises("ValueError: Missing required field: openapi")
  ELSE IF "info" \notin DOMAIN spec
  THEN Raises("ValueError: Missing required field: info")
  ELSE IF "paths" \notin DOMAIN spec
  THEN Raises("ValueError: Missing required field: paths")
  ELSE IF "title" \notin DOMAIN Get(spec, "info", EmptyDict)
  THEN Raises("ValueError: Missing required 'title' in info section")
  ELSE Returns(TRUE)

\* OpenAPIParser.validate_spec: the required fields in the order of the
\* list, then the version string, then the title
validate_spec(spec) ==
  IF "openapi" \notin DOMAIN spec
  THEN Raises("ValueError: Missing required field: openapi")
  ELSE IF "info" \notin DOMAIN spec
  THEN Raises("ValueError: Missing required field: info")
  ELSE IF "paths" \notin DOMAIN spec
  THEN Raises("ValueError: Missing required field: paths")
  ELSE IF ~StartsWith(Get(spec, "openapi", <<>>), <<"3", ".">>)
  THEN Raises("ValueError: Unsupported OpenAPI version")
  ELSE IF "title" \notin DOMAIN Get(spec, "info", EmptyDict)
  THEN Raises("ValueError: Missing required 'title' in info section")
  ELSE Returns(TRUE)

\* the version strings of a document
Versions == {<<"3", ".", "0", ".", "0">>, <<"3", ".", "1", ".", "0">>, <<"3", ".">>, <<"3">>, <<"3", "0", ".", "1">>, <<"2", ".", "0">>, <<"v", "3", ".", "0">>, <<>>}

\* the info sections of a document
Infos == {EmptyDict, [title |-> "Pets"], [version |-> "1.0"],
          [title |-> "Pets", version |-> "1.0"]}

\* the paths sections of a document
PathsSections == {EmptyDict, [p \in {"/a"} |-> EmptyDict]}

TopLevel == {"openapi", "info", "paths"}

\* the documents: every choice of the three sections, with every subset of
\* them left out
ValidateArgs ==
  {[k \in keys |-> full[k]] :
     keys \in SUBSET TopLevel,
     full \in {[openapi |-> v, info |-> i, paths |-> p] :
                 v \in Versions, i \in Infos, p \in PathsSections}}

\* a caller validates a document
ValidateSpec ==
  /\ fn = "none"
  /\ fn' = "validate_spec"
  /\ outcome' = validate_spec(arg)
  /\ UNCHANGED <<engine, endpoint, test_cases, schema, test_data,
                 endpoints, exclude, include_only, filtered_endpoints,
                 arg, temp_dir, written>>

InitValidate ==
  /\ EngineIdle
  /\ NoCases /\ NoData /\ NoFilter
  /\ fn = "none"
  /\ arg \in ValidateArgs
  /\ outcome = NoCall
  /\ temp_dir = FALSE
  /\ written = <<>>

NextValidate == ValidateSpec

SpecValidate == InitValidate /\ [][NextValidate]_vars

\* the version of a document starts with the two characters '3.'
Version3(spec) ==
  /\ Len(spec["openapi"]) >= 2
  /\ spec["openapi"][1] = "3"
  /\ spec["openapi"][2] = "."

\* what is wrong with a document, in the order validate_spec looks
FirstOffence(spec) ==
  IF "openapi" \notin DOMAIN spec
  THEN "ValueError: Missing required field: openapi"
  ELSE IF "info" \notin DOMAIN spec
  THEN "ValueError: Missing required field: info"
  ELSE IF "paths" \notin DOMAIN spec
  THEN "ValueError: Missing required field: paths"
  ELSE IF ~Version3(spec) THEN "ValueError: Unsupported OpenAPI version"
  ELSE IF "title" \notin DOMAIN spec["info"]
  THEN "ValueError: Missing required 'title' in info section"
  ELSE None

upper(s) == [i \in 1..Len(s) |-> ToUpper(s[i])]

\* line 141: the keys of a path item that name an operation
HttpMethods == {<<"g", "e", "t">>, <<"p", "o", "s", "t">>, <<"p", "u", "t">>, <<"p", "a", "t", "c", "h">>, <<"d", "e", "l", "e", "t", "e">>, <<"h", "e", "a", "d">>, <<"o", "p", "t", "i", "o", "n", "s">>}

\* a key is an operation only as it is written
IsOperation_AsWritten(method) == method \in HttpMethods

\* line 141: the test of a key of a path item
IsOperation(method) == lower(method) \in HttpMethods

\* lines 142-153: the Endpoint of an operation, reduced to four fields
Endpoint(path, method, operation) ==
  [path |-> path, method |-> upper(method),
   operation_id |-> Get(operation, "operationId", None),
   tags |-> Get(operation, "tags", <<>>)]

\* lines 140-154: the Endpoints of one path item, key after key
RECURSIVE ItemEndpoints(_, _)
ItemEndpoints(path, path_item) ==
  IF path_item = <<>> THEN <<>>
  ELSE (IF IsOperation(Head(path_item).k)
        THEN <<Endpoint(path, Head(path_item).k, Head(path_item).v)>>
        ELSE <<>>) \o ItemEndpoints(path, Tail(path_item))

\* lines 139-154: the Endpoints of the paths, path after path
RECURSIVE PathsEndpoints(_)
PathsEndpoints(paths) ==
  IF paths = <<>> THEN <<>>
  ELSE ItemEndpoints(Head(paths).k, Head(paths).v) \o PathsEndpoints(Tail(paths))

\* OpenAPIParser.parse_endpoints
parse_endpoints(spec) == Returns(PathsEndpoints(Get(spec, "paths", <<>>)))

\* how many keys a path item holds at most
MaxKeys == 2

\* the operations written under a key that names one
Operations == {EmptyDict, [operationId |-> "listPets"]}

\* the value null of a document
Null == [kind |-> "null"]

\* the keys of a path item with the values written under them: operations
\* in lower and in upper case, trace (an operation the parser does not
\* list) and fields that are no operations
ItemEntries ==
  {Entry(<<"g", "e", "t">>, o) : o \in Operations}
    \cup {Entry(<<"G", "E", "T">>, EmptyDict), Entry(<<"p", "o", "s", "t">>, EmptyDict),
          Entry(<<"t", "r", "a", "c", "e">>, EmptyDict),
          Entry(<<"p", "a", "r", "a", "m", "e", "t", "e", "r", "s">>, List(<<>>)), Entry(<<"p", "a", "r", "a", "m", "e", "t", "e", "r", "s">>, Null),
          Entry(<<"s", "u", "m", "m", "a", "r", "y">>, Str(<<"t", "e", "x", "t">>))}

\* the path items: up to n entries with different keys, in any order
RECURSIVE PathItems(_)
PathItems(n) ==
  IF n = 0 THEN {<<>>}
  ELSE LET shorter == PathItems(n - 1)
       IN shorter \cup
            {Append(item, e) :
               item \in {s \in shorter : Len(s) = n - 1},
               e \in ItemEntries}

DistinctKeys(item) ==
  \A i, j \in 1..Len(item) : i # j => item[i].k # item[j].k

DocPaths == {"/a", "/b"}

\* the paths sections: no path, one path, both paths in either order
PathsOf(items) ==
  {<<>>}
    \cup {<<Entry(p, item)>> : p \in DocPaths, item \in items}
    \cup {<<Entry(pq[1], item1), Entry(pq[2], item2)>> :
            pq \in {x \in DocPaths \X DocPaths : x[1] # x[2]},
            item1 \in items, item2 \in items}

\* the documents whose path items hold up to n keys, and one without a
\* paths section
ParseArgs(n) ==
  {EmptyDict}
    \cup {[paths |-> ps] :
            ps \in PathsOf({item \in PathItems(n) : DistinctKeys(item)})}

\* a caller parses the endpoints of a document
ParseEndpoints ==
  /\ fn = "none"
  /\ fn' = "parse_endpoints"
  /\ outcome' = parse_endpoints(arg)
  /\ UNCHANGED <<engine, endpoint, test_cases, schema, test_data,
                 endpoints, exclude, include_only, filtered_endpoints,
                 arg, temp_dir, written>>

InitParse ==
  /\ EngineIdle
  /\ NoCases /\ NoData /\ NoFilter
  /\ fn = "none"
  /\ arg \in ParseArgs(MaxKeys)
  /\ outcome = NoCall
  /\ temp_dir = FALSE
  /\ written = <<>>

NextParse == ParseEndpoints

SpecParse == InitParse /\ [][NextParse]_vars


\* ------------------------------------------ properties of parse_endpoints

\* the keys of one path item as they are written, each with its path
KeysOfItem(path, path_item) ==
  [i \in 1..Len(path_item) |-> [path |-> path, key |-> path_item[i].k]]

\* the keys of all path items of a document, in document order
RECURSIVE KeysOfPaths(_)
KeysOfPaths(paths) ==
  IF paths = <<>> THEN <<>>
  ELSE KeysOfItem(Head(paths).k, Head(paths).v) \o KeysOfPaths(Tail(paths))

KeysWritten(spec) ==
  IF "paths" \in DOMAIN spec THEN KeysOfPaths(spec["paths"]) ELSE <<>>

\* the keys that are one of the seven operation names as written
VerbKeys(spec) ==
  LET IsVerb(w) == w.key \in HttpMethods
  IN SelectSeq(KeysWritten(spec), IsVerb)

\* the keys that are one of the seven operation names in any letter case
VerbKeysAnyCase(spec) ==
  LET IsVerb(w) ==
        \E m \in HttpMethods :
          /\ Len(m) = Len(w.key)
          /\ \A i \in 1..Len(m) : m[i] = ToLower(w.key[i])
  IN SelectSeq(KeysWritten(spec), IsVerb)

\* C23 as stated: the Endpoints are, in document order, one for every key
\* of a path item that is one of get, post, put, patch, delete, head,
\* options, and none for any other key
C23_VerbKeysOnly ==
  (fn = "parse_endpoints" /\ outcome.kind = "returned") =>
    LET keys == VerbKeys(arg)
    IN /\ Len(outcome.value) = Len(keys)
       /\ \A i \in 1..Len(keys) : outcome.value[i].path = keys[i].path

\* C23: the Endpoints are, in document order, one for every key of a path
\* item that is one of the seven operation names in any letter case, with
\* the path of the item and the key in upper case as method; every other
\* key gives none, whatever is written under it
C23_Endpoints ==
  (fn = "parse_endpoints") =>
    /\ outcome.kind = "returned"
    /\ LET keys == VerbKeysAnyCase(arg)
       IN /\ Len(outcome.value) = Len(keys)
          /\ \A i \in 1..Len(keys) :
               /\ outcome.value[i].path = keys[i].path
               /\ Len(outcome.value[i].method) = Len(keys[i].key)
               /\ \A c \in 1..Len(keys[i].key) :
                    outcome.value[i].method[c] = ToUpper(keys[i].key[c])

\* both paths hold an operation after a key that is none (one of them null),
\* the second one written in upper case: two Endpoints, in document order
C23_Witness ==
  /\ fn = "parse_endpoints"
  /\ outcome.kind = "returned"
  /\ Len(outcome.value) = 2
  /\ outcome.value[1].path = "/b"
  /\ outcome.value[2].path = "/a"
  /\ outcome.value[2].method = <<"G", "E", "T">>
  /\ Len(arg["paths"][1].v) = 2
  /\ arg["paths"][1].v[1] = Entry(<<"p", "a", "r", "a", "m", "e", "t", "e", "r", "s">>, Null)
  /\ Len(arg["paths"][2].v) = 2
  /\ arg["paths"][2].v[2].k = <<"G", "E", "T">>

\* C24: no two of the Endpoints of one document have the same path and the
\* same method
C24_OnePerPathMethod ==
  (fn = "parse_endpoints" /\ outcome.kind = "returned") =>
    \A i, j \in 1..Len(outcome.value) :
      (/\ outcome.value[i].path = outcome.value[j].path
       /\ outcome.value[i].method = outcome.value[j].method) => i = j


\* ------------------------- generator: groups and files (generator.py 76-107)

\* lines 35-36 of templates.py, the first substitution: an underscore
\* between any character and a capital that lower-case letters follow
RECURSIVE Sub1(_)
Sub1(s) ==
  IF Len(s) < 3 THEN s
  ELSE IF IsUpper(s[2]) /\ IsLower(s[3])
  THEN LET j == CHOOSE e \in 3..Len(s) :
                  /\ \A h \in 3..e : IsLower(s[h])
                  /\ (e = Len(s) \/ ~IsLower(s[e + 1]))
       IN <<s[1], "_">> \o SubSeq(s, 2, j) \o Sub1(SubSeq(s, j + 1, Len(s)))
  ELSE <<s[1]>> \o Sub1(Tail(s))

\* the second substitution: an underscore between a lower-case letter or a
\* digit and a capital
RECURSIVE Sub2(_)
Sub2(s) ==
  IF Len(s) < 2 THEN s
  ELSE IF (IsLower(s[1]) \/ IsDigit(s[1])) /\ IsUpper(s[2])
  THEN <<s[1], "_", s[2]>> \o Sub2(SubSeq(s, 3, Len(s)))
  ELSE <<s[1]>> \o Sub2(Tail(s))

\* TemplateEngine._to_snake_case
_to_snake_case(text) == lower(Sub2(Sub1(text)))

\* line 84: endpoint.tags or ['default']
TagsOf(e) == IF e.tags = <<>> THEN <<<<"d", "e", "f", "a", "u", "l", "t">>>> ELSE e.tags

\* lines 85-87: the endpoint is appended to the group of the tag, which is
\* made when the tag is new; groups stand in the order their tags came
AddToGroup(groups, tag, e) ==
  IF \E i \in 1..Len(groups) : groups[i].k = tag
  THEN [i \in 1..Len(groups) |->
          IF groups[i].k = tag THEN Entry(tag, Append(groups[i].v, e))
          ELSE groups[i]]
  ELSE Append(groups, Entry(tag, <<e>>))

\* line 84: the tags of one endpoint, one after the other
RECURSIVE AddTags(_, _, _)
AddTags(groups, tags, e) ==
  IF tags = <<>> THEN groups
  ELSE AddTags(AddToGroup(groups, Head(tags), e), Tail(tags), e)

\* lines 82-87: endpoints_by_tag
RECURSIVE GroupByTag(_, _)
GroupByTag(groups, eps) ==
  IF eps = <<>> THEN groups
  ELSE GroupByTag(AddTags(groups, TagsOf(Head(eps)), Head(eps)), Tail(eps))

\* line 102: the name of the file of a tag
TestFile(template_name, tag) ==
  template_name \o <<"_">> \o _to_snake_case(tag) \o <<".", "b", "a", "t", "s">>

\* lines 90-104: one file per group, opened for writing, with the rendered
\* tag and endpoints of the group
WriteGroups(template_name, groups) ==
  [i \in 1..Len(groups) |->
     [file |-> TestFile(template_name, groups[i].k),
      tag |-> groups[i].k, endpoints |-> groups[i].v]]

\* TestGenerator._generate_template_tests
_generate_template_tests(template_name, eps) ==
  WriteGroups(template_name, GroupByTag(<<>>, eps))

\* the tags of operations
Tags == {<<"U", "s", "e", "r", "s">>, <<"u", "s", "e", "r", "s">>, <<"U", "s", "e", "r", "A", "d", "m", "i", "n">>, <<"u", "s", "e", "r", "_", "a", "d", "m", "i", "n">>, <<"p", "e", "t", "s">>}

\* the tags of one operation: none, one, or two
TagLists ==
  {<<>>, <<<<"p", "e", "t", "s">>, <<"u", "s", "e", "r", "s">>>>, <<<<"p", "e", "t", "s">>, <<"p", "e", "t", "s">>>>} \cup {<<t>> : t \in Tags}

\* the Endpoints of a document, each with its own path
TaggedEndpoints ==
  {<<>>}
    \cup {<<[path |-> p, tags |-> ts]>> : p \in DocPaths, ts \in TagLists}
    \cup {<<[path |-> pq[1], tags |-> ts1], [path |-> pq[2], tags |-> ts2]>> :
            pq \in {x \in DocPaths \X DocPaths : x[1] # x[2]},
            ts1 \in TagLists, ts2 \in TagLists}

GroupArgs == [template_name : {<<"b", "a", "s", "i", "c">>, <<"a", "u", "t", "h">>}, endpoints : TaggedEndpoints]

\* the generator renders one template for the endpoints
GenerateTemplateTests ==
  /\ fn = "none"
  /\ fn' = "_generate_template_tests"
  /\ written' = _generate_template_tests(arg.template_name, arg.endpoints)
  /\ outcome' = Returns(None)
  /\ UNCHANGED <<engine, endpoint, test_cases, schema, test_data,
                 endpoints, exclude, include_only, filtered_endpoints,
                 arg, temp_dir>>

InitGroup ==
  /\ EngineIdle
  /\ NoCases /\ NoData /\ NoFilter
  /\ fn = "none"
  /\ arg \in GroupArgs
  /\ outcome = NoCall
  /\ temp_dir = FALSE
  /\ written = <<>>

NextGroup == GenerateTemplateTests

SpecGroup == InitGroup /\ [][NextGroup]_vars

\* ------------------------------------------------ properties of the groups

\* the tags of an endpoint as a set, 'default' for an endpoint without tags
TagSet(e) ==
  IF e.tags = <<>> THEN {<<"d", "e", "f", "a", "u", "l", "t">>} ELSE {e.tags[i] : i \in 1..Len(e.tags)}

\* the tags of all endpoints of the call
AllTags == UNION {TagSet(arg.endpoints[i]) : i \in 1..Len(arg.endpoints)}

\* the writes that rendered the group of a tag
WritesOf(tag) == {i \in 1..Len(written) : written[i].tag = tag}

\* C25: every endpoint stands exactly once in the group of each of its
\* tags and in no other group, an endpoint without tags stands in the group
\* 'default' only, and the call writes exactly one file per different tag,
\* no two tags to the same file
C25_Grouping ==
  fn = "_generate_template_tests" =>
    /\ \A t \in AllTags : Cardinality(WritesOf(t)) = 1
    /\ \A w \in 1..Len(written) :
         /\ written[w].tag \in AllTags
         /\ \A i \in 1..Len(arg.endpoints) :
              Count(written[w].endpoints, arg.endpoints[i]) =
                IF written[w].tag \in TagSet(arg.endpoints[i]) THEN 1 ELSE 0
    /\ \A v, w \in 1..Len(written) :
         written[v].file = written[w].file => v = w


\* --------------------------------- parser: _fetch_from_git (parser.py 99-132)
\* A text is the sequence of the parts it is put together from.

\* the repositories of a configuration: an https URL and the scp-like form
RepoUrls == {"https://github.com/org/api.git", "git@github.com:org/api.git"}

\* urllib.parse.urlparse: the scp-like form has neither scheme nor netloc
urlparse(url) ==
  IF url = "https://github.com/org/api.git"
  THEN [scheme |-> "https", netloc |-> "github.com", path |-> "/org/api.git"]
  ELSE [scheme |-> "", netloc |-> "", path |-> url]

\* lines 110-112: the URL handed to clone_from
CloneUrl(git_config) ==
  IF Get(git_config, "token", None) # None
  THEN LET parsed_url == urlparse(git_config["repo"])
       IN <<parsed_url.scheme, "://", git_config["token"], "@",
            parsed_url.netloc, parsed_url.path>>
  ELSE <<git_config["repo"]>>

\* the user name a URL carries before its host: none without '//' right
\* after the scheme, none without '@'
Username(url) ==
  IF Len(url) = 6 /\ url[1] # "" THEN url[3] ELSE None

\* the URL as the library shows it in the command line of its error: a
\* library that masks credentials replaces the user name it finds
ShownUrl(url, masks) ==
  IF masks /\ Username(url) # None
  THEN [i \in 1..Len(url) |-> IF i = 3 THEN "*****" ELSE url[i]]
  ELSE url

\* str(GitCommandError): the command line of the clone and what git wrote
GitCommandError(url, branch, masks) ==
  <<"Cmd('git') failed due to: exit code(128) cmdline: git clone --branch=",
    branch, " -- ">> \o ShownUrl(url, masks) \o <<" stderr: 'fatal: ...'">>

Error(type, text) == [type |-> type, text |-> text]

\* the configurations: repo and path, with and without branch and token
GitConfigs ==
  {[k \in keys |-> full[k]] :
     keys \in {{"repo", "path"} \cup opt : opt \in SUBSET {"branch", "token"}},
     full \in [repo : RepoUrls, path : {"openapi.yaml", "docs/api.json"},
               branch : {"dev"}, token : {"ghp_secret", "glpat_other"}]}

\* line 107: the temporary directory is made
FetchFromGit ==
  /\ fn = "none"
  /\ fn' = "_fetch_from_git"
  /\ temp_dir' = TRUE
  /\ UNCHANGED <<engine, endpoint, test_cases, schema, test_data,
                 endpoints, exclude, include_only, filtered_endpoints,
                 arg, outcome, written>>

\* the call is under way
Fetching == fn = "_fetch_from_git" /\ temp_dir /\ outcome = NoCall

\* lines 115, 131-132: the clone fails; the ValueError carries the text of
\* the library's error, and leaving the with block removes the directory
GitCloneFails ==
  /\ Fetching
  /\ \E masks \in BOOLEAN :
       outcome' = Raises(Error("ValueError",
                    <<"Failed to clone Git repository: ">> \o
                    GitCommandError(CloneUrl(arg), Get(arg, "branch", "main"),
                                    masks)))
  /\ temp_dir' = FALSE
  /\ UNCHANGED <<engine, endpoint, test_cases, schema, test_data,
                 endpoints, exclude, include_only, filtered_endpoints,
                 fn, arg, written>>

\* lines 118-120: the clone holds no file at the path
GitSpecMissing ==
  /\ Fetching
  /\ outcome' = Raises(Error("FileNotFoundError",
                  <<"OpenAPI spec file not found in repository: ", arg["path"]>>))
  /\ temp_dir' = FALSE
  /\ UNCHANGED <<engine, endpoint, test_cases, schema, test_data,
                 endpoints, exclude, include_only, filtered_endpoints,
                 fn, arg, written>>

\* lines 126-129: the file is neither JSON nor YAML; the YAML error tells
\* the place in the file
GitDecodeFails ==
  /\ Fetching
  /\ outcome' = Raises(Error("YAMLError",
                  <<"while scanning: in \"<unicode string>\", line 1">>))
  /\ temp_dir' = FALSE
  /\ UNCHANGED <<engine, endpoint, test_cases, schema, test_data,
                 endpoints, exclude, include_only, filtered_endpoints,
                 fn, arg, written>>

\* lines 126-129: the document of the file is returned
GitReturns ==
  /\ Fetching
  /\ \E document \in {[openapi |-> "3.0.0"], EmptyDict} :
       outcome' = Returns(document)
  /\ temp_dir' = FALSE
  /\ UNCHANGED <<engine, endpoint, test_cases, schema, test_data,
                 endpoints, exclude, include_only, filtered_endpoints,
                 fn, arg, written>>

InitGit ==
  /\ EngineIdle
  /\ NoCases /\ NoData /\ NoFilter
  /\ fn = "none"
  /\ arg \in GitConfigs
  /\ outcome = NoCall
  /\ temp_dir = FALSE
  /\ written = <<>>

NextGit ==
  \/ FetchFromGit
  \/ GitCloneFails
  \/ GitSpecMissing
  \/ GitDecodeFails
  \/ GitReturns

SpecGit == InitGit /\ [][NextGit]_vars

\* C26: once _fetch_from_git has returned or raised, its temporary
\* directory is gone, and when the configuration holds a token no part of
\* the message of the error it raised is the token
C26_TokenHidden ==
  (fn = "_fetch_from_git" /\ outcome.kind # "none") =>
    /\ ~temp_dir
    /\ (outcome.kind = "raised" /\ "token" \in DOMAIN arg) =>
         \A i \in 1..Len(outcome.error.text) :
           outcome.error.text[i] # arg["token"]


\* ------------------------------ _extract_path_params (templates.py 43-46)

\* line 46, re.findall(r'\{([^}]+)\}', path): from left to right, every
\* '{' with at least one character before the next '}' gives what stands
\* between the two, and the search goes on after that '}'
RECURSIVE findall(_)
findall(s) ==
  IF s = <<>> THEN <<>>
  ELSE IF /\ s[1] = "{"
          /\ \E j \in 3..Len(s) : s[j] = "}" /\ \A h \in 2..(j - 1) : s[h] # "}"
  THEN LET j == CHOOSE e \in 3..Len(s) :
                  s[e] = "}" /\ \A h \in 2..(e - 1) : s[h] # "}"
       IN <<SubSeq(s, 2, j - 1)>> \o findall(SubSeq(s, j + 1, Len(s)))
  ELSE findall(Tail(s))

\* the methods a class defines
Methods(class) ==
  IF class = "OpenAPIParser"
  THEN {"__init__", "fetch_and_parse", "_fetch_from_url", "_fetch_from_file",
        "_fetch_from_git", "parse_endpoints", "extract_schemas",
        "resolve_refs", "validate_spec", "get_endpoint_test_cases"}
  ELSE {"__init__", "_to_snake_case", "_to_camel_case",
        "_extract_path_params", "_generate_test_data", "render_template",
        "get_available_templates", "create_endpoint_context",
        "create_schema_context"}

\* receiver._extract_path_params(path): the attribute lookup raises
\* AttributeError on an object whose class does not define the method
CallExtract(class, path) ==
  IF "_extract_path_params" \in Methods(class)
  THEN Returns(findall(path))
  ELSE Raises("AttributeError")

\* how many pieces a path is put together from at most
MaxPieces == 2

\* pieces of paths: with and without parameters, with empty braces, with
\* two parameters in one segment, with a brace that is not closed
Pieces == {<<"/", "u", "s", "e", "r", "s">>, <<"/", "u", "s", "e", "r", "s", "/", "{", "u", "s", "e", "r", "_", "i", "d", "}">>, <<"/", "p", "o", "s", "t", "s", "/", "{", "p", "o", "s", "t", "_", "i", "d", "}">>, <<"/", "{", "}">>,
           <<"/", "{", "a", "}", "{", "b", "}">>, <<"/", "{", "i", "d">>}

RECURSIVE PathsOfPieces(_)
PathsOfPieces(n) ==
  IF n = 0 THEN {<<>>}
  ELSE LET shorter == PathsOfPieces(n - 1)
       IN shorter \cup {p \o piece : p \in shorter, piece \in Pieces}

ExtractArgs ==
  [receiver : {"OpenAPIParser", "TemplateEngine"},
   path : PathsOfPieces(MaxPieces)]

\* a caller asks an object for the parameters of a path
ExtractPathParams ==
  /\ fn = "none"
  /\ fn' = "_extract_path_params"
  /\ outcome' = CallExtract(arg.receiver, arg.path)
  /\ UNCHANGED <<engine, endpoint, test_cases, schema, test_data,
                 endpoints, exclude, include_only, filtered_endpoints,
                 arg, temp_dir, written>>

InitExtract ==
  /\ EngineIdle
  /\ NoCases /\ NoData /\ NoFilter
  /\ fn = "none"
  /\ arg \in ExtractArgs
  /\ outcome = NoCall
  /\ temp_dir = FALSE
  /\ written = <<>>

NextExtract == ExtractPathParams

SpecExtract == InitExtract /\ [][NextExtract]_vars

\* C27: _extract_path_params called on an OpenAPIParser returns a list: the
\* empty list for a path without braces, and <<user_id, post_id>> for
\* /users/{user_id}/posts/{post_id}
C27_ParserExtracts ==
  (fn = "_extract_path_params" /\ arg.receiver = "OpenAPIParser") =>
    /\ outcome.kind = "returned"
    /\ (\A i \in 1..Len(arg.path) : arg.path[i] \notin {"{", "}"})
         => outcome.value = <<>>
    /\ arg.path = <<"/", "u", "s", "e", "r", "s", "/", "{", "u", "s", "e", "r", "_", "i", "d", "}", "/", "p", "o", "s", "t", "s", "/", "{", "p", "o", "s", "t", "_", "i", "d", "}">>
         => outcome.value = <<<<"u", "s", "e", "r", "_", "i", "d">>, <<"p", "o", "s", "t", "_", "i", "d">>>>


\* ------------------------------------------------ properties of run_tests

\* C29: a run_tests call that found test files enters at most one strategy,
\* and exactly one once it has dispatched: the containerized one when docker
\* is set, whether or not parallel is set, else the bounded-parallel one
\* when parallel is set, else the sequential one; with docker set bats is
\* never looked for nor run, and without it docker-compose is never launched
C29_OneStrategy ==
  (calls > 0 /\ test_files # <<>>) =>
    /\ Cardinality(hist.strategies) <= 1
    /\ pc \notin {"setup", "dispatch"} => Cardinality(hist.strategies) = 1
    /\ config.docker => hist.strategies \subseteq {"docker"}
    /\ (~config.docker /\ config.parallel)
         => hist.strategies \subseteq {"parallel"}
    /\ (~config.docker /\ ~config.parallel)
         => /\ hist.strategies \subseteq {"sequential"}
            /\ Cardinality(Running) <= 1
    /\ config.docker
         => /\ hist.bats_checks = 0
            /\ hist.started = <<>>
            /\ \A i \in Units : hist.bats_runs[i] = 0
    /\ ~config.docker => hist.docker_runs = 0 /\ hist.compose_made = 0

\* a call with docker and parallel both set has handed back its results
\* after one docker-compose run
C29_Witness ==
  /\ calls > 0 /\ test_files # <<>>
  /\ config.docker /\ config.parallel
  /\ pc = "idle" /\ returned.kind = "returned"
  /\ hist.strategies = {"docker"}
  /\ hist.docker_runs = 1

\* C30: when the output directory holds no test file, every run_tests call
\* raises 'No test files found' and hands back no ExecutionResults; the
\* environment is not prepared and no variable of it is set, and neither
\* bats nor docker-compose is started
C30_NothingFound ==
  (calls > 0 /\ FindTestFiles(top, nested) = <<>>) =>
    /\ pc = "idle"
    /\ returned.kind = "raised"
    /\ returned.error = "No test files found"
    /\ hist.setup = 0
    /\ \A v \in EnvVars : environ[v] = Unset
    /\ hist.strategies = {}
    /\ hist.bats_checks = 0
    /\ hist.started = <<>>
    /\ hist.docker_runs = 0

\* the second call over an empty output directory has raised as well
C30_Witness ==
  /\ calls = 2
  /\ top = {} /\ nested = {}
  /\ returned.kind = "raised"
  /\ returned.error = "No test files found"

====
